---- MODULE Spec2Model ----
(***************************************************************************)
(* go-traceurl-cli: the redirect resolver followRedirects, its helpers     *)
(* handleRelativeRedirect and makeCleanURL, and the part of main that      *)
(* calls them (src/go-trace.go, the second program of the file, lines      *)
(* 535-1078).                                                              *)
(*                                                                         *)
(* A Go string is a sequence of one-character strings, so that parsing,    *)
(* splitting, unescaping and concatenation are computed character by       *)
(* character as the Go library computes them.                              *)
(***************************************************************************)
EXTENDS Integers, Sequences, FiniteSets, TLC

(***************************************************************************)
(* package strings                                                         *)
(***************************************************************************)

\* strings.IndexByte: position of the first c in s, 0 when there is none
\* (Go answers -1 and counts from 0).
IndexByte(s, c) ==
    IF \E i \in 1..Len(s) : s[i] = c
    THEN CHOOSE i \in 1..Len(s) : s[i] = c /\ \A j \in 1..(i - 1) : s[j] # c
    ELSE 0

\* strings.HasPrefix
HasPrefix(s, p) == Len(s) >= Len(p) /\ SubSeq(s, 1, Len(p)) = p

\* strings.HasSuffix
HasSuffix(s, p) == Len(s) >= Len(p) /\ SubSeq(s, Len(s) - Len(p) + 1, Len(s)) = p

\* strings.Contains
Contains(s, sub) ==
    \E i \in 1..(Len(s) - Len(sub) + 1) : SubSeq(s, i, i + Len(sub) - 1) = sub

\* strings.Count for a one-byte separator
Count(s, c) == Cardinality({i \in 1..Len(s) : s[i] = c})

\* strings.Cut, given the position i of the separator (0: there is none)
cutAt(s, i) ==
    IF i = 0
    THEN [before |-> s, after |-> <<>>, found |-> FALSE]
    ELSE [before |-> SubSeq(s, 1, i - 1),
          after  |-> SubSeq(s, i + 1, Len(s)),
          found  |-> TRUE]

\* strings.Cut for a one-byte separator
Cut(s, c) == cutAt(s, IndexByte(s, c))

\* strings.Split for a one-byte separator: the pieces between the separators
RECURSIVE Split(_, _)
splitAt(s, c, i) ==
    IF i = 0
    THEN << s >>
    ELSE << SubSeq(s, 1, i - 1) >> \o Split(SubSeq(s, i + 1, Len(s)), c)

Split(s, c) == splitAt(s, c, IndexByte(s, c))

\* strings.ReplaceAll for a non-empty old
RECURSIVE ReplaceAll(_, _, _)
ReplaceAll(s, old, new) ==
    IF Len(s) < Len(old) THEN s
    ELSE IF HasPrefix(s, old)
         THEN new \o ReplaceAll(SubSeq(s, Len(old) + 1, Len(s)), old, new)
         ELSE << s[1] >> \o ReplaceAll(Tail(s), old, new)

\* strings.ToLower on the letters the inputs use
LowerByte(c) ==
    CASE c = "H" -> "h"
      [] c = "T" -> "t"
      [] c = "P" -> "p"
      [] OTHER   -> c

ToLower(s) == [i \in 1..Len(s) |-> LowerByte(s[i])]

(***************************************************************************)
(* package net/url.  The model covers URL references without userinfo,     *)
(* without IPv6 literals and without ports, and paths and fragments whose  *)
(* unescaped bytes need no escaping (letters, digits, "/", "." and "-"):   *)
(* the strings the program is given below stay inside this class.          *)
(***************************************************************************)

HexDigits == {"0", "1", "2", "3", "4", "5", "6", "7", "8", "9",
              "a", "b", "c", "d", "e", "f", "A", "B", "C", "D", "E", "F"}

\* url.ishex
ishex(c) == c \in HexDigits

\* url.unhex
unhex(c) ==
    CASE c = "0" -> 0 [] c = "1" -> 1 [] c = "2" -> 2 [] c = "3" -> 3
      [] c = "4" -> 4 [] c = "5" -> 5 [] c = "6" -> 6 [] c = "7" -> 7
      [] c = "8" -> 8 [] c = "9" -> 9
      [] c \in {"a", "A"} -> 10 [] c \in {"b", "B"} -> 11
      [] c \in {"c", "C"} -> 12 [] c \in {"d", "D"} -> 13
      [] c \in {"e", "E"} -> 14 [] c \in {"f", "F"} -> 15

\* The byte with a given value, for the values the escapes of the inputs
\* denote; "\n" is the control byte 0x0A. Any other byte is the token "?b".
ByteOf(n) ==
    CASE n = 10 -> "\n"
      [] n = 35 -> "#"
      [] n = 37 -> "%"
      [] n = 38 -> "&"
      [] n = 43 -> "+"
      [] n = 47 -> "/"
      [] n = 58 -> ":"
      [] n = 61 -> "="
      [] n = 63 -> "?"
      [] OTHER  -> "?b"

\* url.unescape, first pass: every "%" is followed by two hex digits
RECURSIVE escapesValid(_)
escapesValid(s) ==
    IF s = <<>> THEN TRUE
    ELSE IF s[1] = "%"
         THEN /\ Len(s) >= 3
              /\ ishex(s[2])
              /\ ishex(s[3])
              /\ escapesValid(SubSeq(s, 4, Len(s)))
         ELSE escapesValid(Tail(s))

\* url.unescape, second pass: "%XY" becomes one byte and, in a query
\* component (plus = TRUE), "+" becomes a space
RECURSIVE unescapeBytes(_, _)
unescapeBytes(s, plus) ==
    IF s = <<>> THEN <<>>
    ELSE IF s[1] = "%"
         THEN << ByteOf(16 * unhex(s[2]) + unhex(s[3])) >>
                  \o unescapeBytes(SubSeq(s, 4, Len(s)), plus)
         ELSE IF s[1] = "+" /\ plus
              THEN << " " >> \o unescapeBytes(Tail(s), plus)
              ELSE << s[1] >> \o unescapeBytes(Tail(s), plus)

\* url.unescape: [ok, val]; ok = FALSE is the EscapeError
unescape(s, plus) ==
    IF escapesValid(s)
    THEN [ok |-> TRUE, val |-> unescapeBytes(s, plus)]
    ELSE [ok |-> FALSE, val |-> <<>>]

\* url.PathUnescape
PathUnescape(s) == unescape(s, FALSE)

\* url.QueryUnescape
QueryUnescape(s) == unescape(s, TRUE)

Letters == {"a", "b", "c", "d", "e", "f", "g", "h", "i", "j", "k", "l", "m",
            "n", "o", "p", "q", "r", "s", "t", "u", "v", "w", "x", "y", "z",
            "H", "T", "P"}

SchemeMarks == {"0", "1", "2", "3", "4", "5", "6", "7", "8", "9", "+", "-", "."}

\* url.getScheme: [ok, scheme, rest]
RECURSIVE getSchemeFrom(_, _)
getSchemeFrom(s, i) ==
    IF i > Len(s) THEN [ok |-> TRUE, scheme |-> <<>>, rest |-> s]
    ELSE IF s[i] \in Letters THEN getSchemeFrom(s, i + 1)
    ELSE IF s[i] \in SchemeMarks
         THEN IF i = 1
              THEN [ok |-> TRUE, scheme |-> <<>>, rest |-> s]
              ELSE getSchemeFrom(s, i + 1)
    ELSE IF s[i] = ":"
         THEN IF i = 1
              THEN [ok |-> FALSE, scheme |-> <<>>, rest |-> <<>>]
              ELSE [ok |-> TRUE,
                    scheme |-> SubSeq(s, 1, i - 1),
                    rest   |-> SubSeq(s, i + 1, Len(s))]
    ELSE [ok |-> TRUE, scheme |-> <<>>, rest |-> s]

getScheme(s) == getSchemeFrom(s, 1)

\* The value url.Parse gives back with a non-nil error
ParseError ==
    [ok |-> FALSE, Scheme |-> <<>>, Opaque |-> <<>>, Host |-> <<>>,
     Path |-> <<>>, RawPath |-> <<>>, RawQuery |-> <<>>,
     ForceQuery |-> FALSE, Fragment |-> <<>>, OmitHost |-> FALSE]

\* url.stringContainsCTLByte
stringContainsCTLByte(s) == \E i \in 1..Len(s) : s[i] = "\n"

\* url.parse, last step: (*URL).setPath on what follows the authority
parsePath(base, host, hasAuth, path0, path) ==
    IF ~path.ok THEN ParseError
    ELSE [base EXCEPT !.Host = host,
                      !.Path = path.val,
                      !.RawPath = IF Contains(path0, << "%" >>) THEN path0 ELSE <<>>,
                      !.OmitHost = ~hasAuth /\ base.Scheme # <<>>]

\* url.parse: the authority is what follows "//" up to the next "/"
parseAuthority(base, auth0, slash) ==
    IF slash = 0
    THEN parsePath(base, auth0, TRUE, <<>>, PathUnescape(<<>>))
    ELSE parsePath(base, SubSeq(auth0, 1, slash - 1), TRUE,
                   SubSeq(auth0, slash, Len(auth0)),
                   PathUnescape(SubSeq(auth0, slash, Len(auth0))))

\* url.parse, after the query is cut off: opaque URL, bad first segment,
\* authority and path
parseRest(base, rest) ==
    IF ~HasPrefix(rest, << "/" >>) /\ base.Scheme # <<>>
    THEN [base EXCEPT !.Opaque = rest]
    ELSE IF ~HasPrefix(rest, << "/" >>)
            /\ Contains(Cut(rest, "/").before, << ":" >>)
    THEN ParseError
    ELSE IF HasPrefix(rest, << "/", "/" >>)
            /\ (base.Scheme # <<>> \/ ~HasPrefix(rest, << "/", "/", "/" >>))
    THEN parseAuthority(base, SubSeq(rest, 3, Len(rest)),
                        IndexByte(SubSeq(rest, 3, Len(rest)), "/"))
    ELSE parsePath(base, <<>>, FALSE, rest, PathUnescape(rest))

\* url.parse, after getScheme: a lone trailing "?" sets ForceQuery, else the
\* query is what follows the first "?"
parseQuery(scheme, r0, force) ==
    parseRest([ok |-> TRUE, Scheme |-> ToLower(scheme), Opaque |-> <<>>,
               Host |-> <<>>, Path |-> <<>>, RawPath |-> <<>>,
               RawQuery |-> IF force THEN <<>> ELSE Cut(r0, "?").after,
               ForceQuery |-> force, Fragment |-> <<>>, OmitHost |-> FALSE],
              IF force THEN SubSeq(r0, 1, Len(r0) - 1) ELSE Cut(r0, "?").before)

parseScheme(sch) ==
    IF ~sch.ok THEN ParseError
    ELSE parseQuery(sch.scheme, sch.rest,
                    HasSuffix(sch.rest, << "?" >>) /\ Count(sch.rest, "?") = 1)

\* url.parse(rawURL, viaRequest = false), on the part before "#"
parse(rawURL) ==
    IF stringContainsCTLByte(rawURL) THEN ParseError
    ELSE parseScheme(getScheme(rawURL))

\* url.Parse, last step: (*URL).setFragment
parseFragment(u, frag) ==
    IF ~u.ok THEN ParseError
    ELSE IF ~frag.ok THEN ParseError
    ELSE [u EXCEPT !.Fragment = frag.val]

\* url.Parse: the fragment is cut off first and unescaped on its own
Parse(rawURL) ==
    parseFragment(parse(Cut(rawURL, "#").before),
                  PathUnescape(Cut(rawURL, "#").after))

\* (*URL).EscapedPath
EscapedPath(u) == IF u.RawPath # <<>> THEN u.RawPath ELSE u.Path

\* (*URL).String: the part before the path
stringPrefix(u) ==
    (IF u.Scheme # <<>> THEN u.Scheme \o << ":" >> ELSE <<>>)
    \o (IF (u.Scheme # <<>> \/ u.Host # <<>>)
           /\ ~(u.OmitHost /\ u.Host = <<>>)
           /\ (u.Host # <<>> \/ u.Path # <<>>)
        THEN << "/", "/" >> ELSE <<>>)
    \o u.Host

\* (*URL).String: the path, with the "/" or "./" written before it
stringPath(u, prefix, path) ==
    (IF path # <<>> /\ path[1] # "/" /\ u.Host # <<>>
     THEN << "/" >> ELSE <<>>)
    \o (IF prefix = <<>> /\ Contains(Cut(path, "/").before, << ":" >>)
        THEN << ".", "/" >> ELSE <<>>)
    \o path

\* (*URL).String
String(u) ==
    (IF u.Opaque # <<>>
     THEN (IF u.Scheme # <<>> THEN u.Scheme \o << ":" >> ELSE <<>>) \o u.Opaque
     ELSE stringPrefix(u) \o stringPath(u, stringPrefix(u), EscapedPath(u)))
    \o (IF u.ForceQuery \/ u.RawQuery # <<>>
        THEN << "?" >> \o u.RawQuery ELSE <<>>)
    \o (IF u.Fragment # <<>> THEN << "#" >> \o u.Fragment ELSE <<>>)

\* url.parseQuery followed by Values.Get: the first value stored under key,
\* the empty string when there is none. A pair with ";" in it, with an empty
\* key or with a bad escape is skipped.
RECURSIVE QueryGet(_, _)
queryPair(segment, rest, key, k, v) ==
    IF \/ Contains(segment, << ";" >>)
       \/ segment = <<>>
       \/ ~k.ok
       \/ ~v.ok
       \/ k.val # key
    THEN QueryGet(rest, key)
    ELSE v.val

querySegment(segment, rest, key) ==
    queryPair(segment, rest, key,
              QueryUnescape(Cut(segment, "=").before),
              QueryUnescape(Cut(segment, "=").after))

QueryGet(query, key) ==
    IF query = <<>> THEN <<>>
    ELSE querySegment(Cut(query, "&").before, Cut(query, "&").after, key)

(***************************************************************************)
(* The strings of the program text                                         *)
(***************************************************************************)

\* "https://outlook.office365.com"
outlookPrefix ==
    << "h", "t", "t", "p", "s", ":", "/", "/", "o", "u", "t", "l", "o", "o", "k", ".", "o", "f", "f", "i", "c", "e", "3", "6", "5", ".", "c", "o", "m" >>

\* "cloudflare"
cloudflare ==
    << "c", "l", "o", "u", "d", "f", "l", "a", "r", "e" >>

\* "returnUri"
returnUri ==
    << "r", "e", "t", "u", "r", "n", "U", "r", "i" >>

\* "redir"
redir ==
    << "r", "e", "d", "i", "r" >>

\* "%3A"
pct3A ==
    << "%", "3", "A" >>

\* "%2F"
pct2F ==
    << "%", "2", "F" >>

\* http.StatusLoopDetected
StatusLoopDetected == 508

\* http.StatusOK
StatusOK == 200

(***************************************************************************)
(* The inputs: the URL given on the command line, and what the servers     *)
(* answer.                                                                 *)
(***************************************************************************)

\* "http://a/1"
seedA1 ==
    << "h", "t", "t", "p", ":", "/", "/", "a", "/", "1" >>

\* "https://x/s?q=1"
seedQuery ==
    << "h", "t", "t", "p", "s", ":", "/", "/", "x", "/", "s", "?", "q", "=", "1" >>

\* ":x"
seedBad ==
    << ":", "x" >>

Seeds == {seedA1, seedQuery, seedBad}

\* "/b"
locRelative ==
    << "/", "b" >>

\* "http://a/1"
locSeed ==
    << "h", "t", "t", "p", ":", "/", "/", "a", "/", "1" >>

\* "HTTP://a/b"
locUpper ==
    << "H", "T", "T", "P", ":", "/", "/", "a", "/", "b" >>

\* "https://outlook.office365.com/owa?redir=%2Fc"
locOutlook ==
    << "h", "t", "t", "p", "s", ":", "/", "/", "o", "u", "t", "l", "o", "o", "k", ".", "o", "f", "f", "i", "c", "e", "3", "6", "5", ".", "c", "o", "m", "/", "o", "w", "a", "?", "r", "e", "d", "i", "r", "=", "%", "2", "F", "c" >>

\* "https://x/r?returnUri=%2Fhome%3Fid%3D1&utm=1"
locReturnUri ==
    << "h", "t", "t", "p", "s", ":", "/", "/", "x", "/", "r", "?", "r", "e", "t", "u", "r", "n", "U", "r", "i", "=", "%", "2", "F", "h", "o", "m", "e", "%", "3", "F", "i", "d", "%", "3", "D", "1", "&", "u", "t", "m", "=", "1" >>

\* "/r?returnUri=%2Fb&redir=%2Fc"
locBoth ==
    << "/", "r", "?", "r", "e", "t", "u", "r", "n", "U", "r", "i", "=", "%", "2", "F", "b", "&", "r", "e", "d", "i", "r", "=", "%", "2", "F", "c" >>

\* "/r?utm=1&redir=%252Fc"
locRedir ==
    << "/", "r", "?", "u", "t", "m", "=", "1", "&", "r", "e", "d", "i", "r", "=", "%", "2", "5", "2", "F", "c" >>

\* ":bad"
locBad ==
    << ":", "b", "a", "d" >>

\* "/r?returnUri=%25zz"
locReturnUriBad ==
    << "/", "r", "?", "r", "e", "t", "u", "r", "n", "U", "r", "i", "=", "%", "2", "5", "z", "z" >>

\* "/r?redir=%25zz"
locRedirBad ==
    << "/", "r", "?", "r", "e", "d", "i", "r", "=", "%", "2", "5", "z", "z" >>

\* "/r?redir=%250A"
locRedirCTL ==
    << "/", "r", "?", "r", "e", "d", "i", "r", "=", "%", "2", "5", "0", "A" >>

\* The non-empty values of the Location header
Locations ==
    {locRelative, locSeed, locUpper, locOutlook, locReturnUri, locBoth,
     locRedir, locBad, locReturnUriBad, locRedirBad, locRedirCTL}

\* "cloudflare-nginx"
srvCloudflareNginx ==
    << "c", "l", "o", "u", "d", "f", "l", "a", "r", "e", "-", "n", "g", "i", "n", "x" >>

\* "nginx"
srvNginx ==
    << "n", "g", "i", "n", "x" >>

\* The values of the Server header, <<>> for a response without one
Servers == {<<>>, cloudflare, srvCloudflareNginx, srvNginx}

\* The status codes of the responses: both ends of 300..399, the codes next
\* to them, 200, and 508 sent by a server
Statuses == {199, 200, 299, 300, 399, 400, 508}

\* The ways client.Do fails
TransportFailures == {"connection refused", "timeout", "x509", "other"}

\* The largest hop number at which a server still redirects onward
MaxHops == 3

(***************************************************************************)
(* The state.  A pointer is a sequence of length 0 (nil) or 1.             *)
(***************************************************************************)
VARIABLES
    pc,                \* "loop": at the head of the for loop of followRedirects;
                       \* "returned": followRedirects has returned to main;
                       \* "traced": main has built the TraceResult;
                       \* "exited": os.Exit was called
    url,               \* main: the URL argument
    urlStr,            \* followRedirects: the URL to request next
    hops,              \* followRedirects: the hop ledger
    number,            \* followRedirects: the number of the hop being made
    previousURL,       \* followRedirects: *url.URL
    visitedURLs,       \* followRedirects: map[string]int
    cloudflareStatus,  \* followRedirects: the anti-bot flag
    resp,              \* the response client.Do gave last, as a pointer
    requests,          \* the URLs client.Do was called with, in order
    openBodies,        \* the hop numbers whose response body is not closed
    ret,               \* what followRedirects returned
    traceResult,       \* main: the TraceResult, as a pointer
    stdout,            \* the messages printed
    exitCode,          \* the process exit code, as a pointer
    call,              \* a call of handleRelativeRedirect made on its own,
                       \* as a pointer: its arguments and its result
    configFile,        \* go-trace.toml as loadConfig finds it
    cmdline,           \* the command line: the flags given and the arguments
    flagHelp,          \* main: the variables the flags are bound to
    flagOutputJSON,
    flagTerse,
    flagVerbose,
    flagWidth,
    outputWidth,       \* the package variables outputWidth and
    outputDividerWidth \* outputDividerWidth

\* The command line, the configuration file and what main makes of them
mainVars == << configFile, cmdline, flagHelp, flagOutputJSON, flagTerse,
               flagVerbose, flagWidth, outputWidth, outputDividerWidth >>

vars == << pc, url, urlStr, hops, number, previousURL, visitedURLs,
           cloudflareStatus, resp, requests, openBodies, ret, traceResult,
           stdout, exitCode, call, mainVars >>

(***************************************************************************)
(* makeCleanURL                                                            *)
(***************************************************************************)
\* the part after the last "?" taken instead of the part before the first
cleanPartLast(u, parts) == IF Len(parts) > 1 THEN parts[Len(parts)] ELSE u

\* the part after the first "?" taken instead of the part before it
cleanPartRest(u, parts) ==
    IF Len(parts) > 1 THEN SubSeq(u, Len(parts[1]) + 2, Len(u)) ELSE u

\* the choice made once the URL is split
cleanPart(u, parts) == IF Len(parts) > 1 THEN parts[1] ELSE u

makeCleanURL(u) == cleanPart(u, Split(u, "?"))

(***************************************************************************)
(* handleRelativeRedirect                                                  *)
(***************************************************************************)

\* the scheme taken from requestURL first
schemeDonorRequestFirst(previous, requestURL) ==
    IF requestURL # <<>> THEN requestURL ELSE previous

\* The URL a missing scheme is taken from: previousURL, else requestURL,
\* else none
schemeDonor(previous, requestURL) ==
    IF previous # <<>> THEN previous ELSE requestURL

\* The URL a missing host is taken from
hostDonor(previous, requestURL) ==
    IF previous # <<>> THEN previous ELSE requestURL

\* the scheme and the host taken from the donors whenever there is one
fillMissingAlways(redirectURL, sd, hd) ==
    IF ~redirectURL.ok
    THEN [err |-> "parse", u |-> ParseError]
    ELSE IF redirectURL.Scheme = <<>> /\ sd = <<>>
    THEN [err |-> "missing scheme for relative redirect", u |-> ParseError]
    ELSE IF redirectURL.Host = <<>> /\ hd = <<>>
    THEN [err |-> "missing host for relative redirect", u |-> ParseError]
    ELSE [err |-> "nil",
          u   |-> [redirectURL EXCEPT
                     !.Scheme = IF sd # <<>> THEN sd[1].Scheme
                                ELSE redirectURL.Scheme,
                     !.Host = IF hd # <<>> THEN hd[1].Host
                              ELSE redirectURL.Host]]

\* handleRelativeRedirect once location is parsed: [err, u], err is "nil"
\* or the error returned. sd and hd are the pointers the scheme and the host
\* are taken from.
fillMissing(redirectURL, sd, hd) ==
    IF ~redirectURL.ok
    THEN [err |-> "parse", u |-> ParseError]
    ELSE IF redirectURL.Scheme = <<>> /\ sd = <<>>
    THEN [err |-> "missing scheme for relative redirect", u |-> ParseError]
    ELSE IF redirectURL.Host = <<>> /\ hd = <<>>
    THEN [err |-> "missing host for relative redirect", u |-> ParseError]
    ELSE [err |-> "nil",
          u   |-> [redirectURL EXCEPT
                     !.Scheme = IF redirectURL.Scheme = <<>> THEN sd[1].Scheme
                                ELSE redirectURL.Scheme,
                     !.Host = IF redirectURL.Host = <<>> THEN hd[1].Host
                              ELSE redirectURL.Host]]

handleRelativeRedirect(previous, location, requestURL) ==
    fillMissing(Parse(location),
                schemeDonor(previous, requestURL),
                hostDonor(previous, requestURL))

(***************************************************************************)
(* followRedirects: the pieces of one loop iteration                       *)
(***************************************************************************)

\* the hop given the URL the resolution began with
HopOfSeed(n, u, status) == [Number |-> n, URL |-> url, StatusCode |-> status]

Hop(n, u, status) == [Number |-> n, URL |-> u, StatusCode |-> status]

\* visitedURLs[u], 0 for a key the map does not hold
visitCount(visited, u) == IF u \in DOMAIN visited THEN visited[u] ELSE 0

\* a loop test that never finds a loop
loopDetectedNever(visited, u) == FALSE

\* the loop test, one visit late
loopDetectedLate(visited, u) == visitCount(visited, u) > 2

\* the loop test at the head of an iteration
loopDetected(visited, u) == visitCount(visited, u) > 1

\* the count raised by two
markVisitedTwice(visited, u) ==
    [x \in DOMAIN visited \cup {u} |->
        IF x = u THEN visitCount(visited, u) + 2 ELSE visited[x]]

\* visitedURLs[u]++
markVisited(visited, u) ==
    [x \in DOMAIN visited \cup {u} |->
        IF x = u THEN visitCount(visited, u) + 1 ELSE visited[x]]

\* the redirect test begun one code early
isRedirectFrom299(status) == status >= 299 /\ status <= 399

\* the redirect test without its lower end
isRedirectAbove(status) == status > 300 /\ status <= 399

\* resp.StatusCode >= 300 && resp.StatusCode <= 399
isRedirect(status) == status >= 300 /\ status <= 399

\* the Server test as an equality
isCloudflareExact(server) == server = cloudflare

\* strings.Contains(resp.Header.Get("Server"), "cloudflare")
isCloudflare(server) == Contains(server, cloudflare)

\* strings.HasPrefix(location, "https://outlook.office365.com")
isSpecialProvider(location) == HasPrefix(location, outlookPrefix)

\* the hop number raised by two
nextNumberByTwo(n) == n + 2

\* the hop number left as it is
nextNumberStuck(n) == n

\* number++
nextNumber(n) == n + 1

\* the special provider's final hop numbered as the next hop
specialHopNumberNext(n) == n + 1

\* The hop number of the special provider's final hop
specialHopNumber(n) == n + 2

\* the two strings.ReplaceAll on the unescaped value
replaceEscapes(d) ==
    IF ~d.ok THEN d
    ELSE [ok  |-> TRUE,
          val |-> ReplaceAll(ReplaceAll(d.val, pct3A, << ":" >>),
                             pct2F, << "/" >>)]

\* url.PathUnescape, then the two strings.ReplaceAll: [ok, val]
decodeParam(value) == replaceEscapes(PathUnescape(value))

\* the rewrite that leaves the query of the target after the parameter
rewriteQueryKeepAll(u, name, value) ==
    u.Scheme \o << ":", "/", "/" >> \o u.Host \o u.Path
        \o << "?" >> \o name \o << "=" >> \o value \o << "&" >> \o u.RawQuery

\* u.Scheme + "://" + u.Host + u.Path + "?" + name + "=" + value
rewriteQuery(u, name, value) ==
    u.Scheme \o << ":", "/", "/" >> \o u.Host \o u.Path
        \o << "?" >> \o name \o << "=" >> \o value

\* the two parameter blocks as if / else if
applyParamsFirstMatch(u, redirectURLString, returnURI, redirURI) ==
    IF returnURI # <<>>
    THEN u.Scheme \o << ":", "/", "/" >> \o u.Host \o u.Path \o << "?" >>
            \o returnUri \o << "=" >> \o PathUnescape(returnURI).val
    ELSE IF redirURI # <<>>
    THEN u.Scheme \o << ":", "/", "/" >> \o u.Host \o u.Path \o << "?" >>
            \o redir \o << "=" >> \o PathUnescape(redirURI).val
    ELSE redirectURLString

\* the URL put together again from its parts when no parameter is there
applyParamsRebuilt(u, redirectURLString, returnURI, redirURI) ==
    IF redirURI # <<>>
    THEN u.Scheme \o << ":", "/", "/" >> \o u.Host \o u.Path \o << "?" >>
            \o redir \o << "=" >> \o PathUnescape(redirURI).val
    ELSE IF returnURI # <<>>
    THEN u.Scheme \o << ":", "/", "/" >> \o u.Host \o u.Path \o << "?" >>
            \o returnUri \o << "=" >> \o PathUnescape(returnURI).val
    ELSE u.Scheme \o << ":", "/", "/" >> \o u.Host \o u.Path \o << "?" >>
            \o u.RawQuery

\* The URL after both parameter blocks: the redir block runs after the
\* returnUri block and assigns redirectURLString again
applyParams(u, redirectURLString, returnURI, redirURI) ==
    IF redirURI # <<>>
    THEN rewriteQuery(u, redir, decodeParam(redirURI).val)
    ELSE IF returnURI # <<>>
    THEN rewriteQuery(u, returnUri, decodeParam(returnURI).val)
    ELSE redirectURLString

\* The two parameter blocks, with the errors they return: [err, url]
unwrapValues(u, redirectURLString, returnURI, redirURI) ==
    IF returnURI # <<>> /\ ~decodeParam(returnURI).ok
    THEN [err |-> "error decoding returnUri", url |-> <<>>]
    ELSE IF redirURI # <<>> /\ ~decodeParam(redirURI).ok
    THEN [err |-> "error decoding redir param", url |-> <<>>]
    ELSE [err |-> "nil",
          url |-> applyParams(u, redirectURLString, returnURI, redirURI)]

\* u.Query() and the two Get calls
unwrapParsed(u, redirectURLString) ==
    IF ~u.ok
    THEN [err |-> "error parsing URL", url |-> <<>>]
    ELSE unwrapValues(u, redirectURLString,
                      QueryGet(u.RawQuery, returnUri),
                      QueryGet(u.RawQuery, redir))

\* From url.Parse(redirectURLString) to the end of the redir block:
\* [err, url]
unwrapParams(redirectURLString) ==
    unwrapParsed(Parse(redirectURLString), redirectURLString)

\* previousURL, err = url.Parse(urlStr)
parseNext(un) ==
    IF un.err # "nil" THEN un
    ELSE IF ~Parse(un.url).ok
    THEN [err |-> "error parsing URL", url |-> <<>>]
    ELSE un

\* redirectURL.String() and what follows
resolved(rel) ==
    IF rel.err # "nil"
    THEN [err |-> "error handling relative redirect", url |-> <<>>]
    ELSE parseNext(unwrapParams(String(rel.u)))

\* From the call of handleRelativeRedirect to the url.Parse that sets
\* previousURL: [err, url]
redirectTarget(previous, location, requestURL) ==
    resolved(handleRelativeRedirect(previous, location, requestURL))

\* client.Do can only give a response for a URL with an http or https scheme
\* and a host: for any other URL the transport fails
canRespond(u) ==
    /\ u.ok
    /\ u.Scheme \in { << "h", "t", "t", "p" >>, << "h", "t", "t", "p", "s" >> }
    /\ u.Host # <<>>

(***************************************************************************)
(* main: the flags, the configuration file and the output width            *)
(***************************************************************************)

\* flag.IntVar(&flagWidth, "w", 120, ...) and the 120 of loadConfig and of
\* the width test of main
DefaultWidth == 120

\* the package variables as they are initialised
InitialOutputWidth == 120

InitialOutputDividerWidth == 135

\* outputDividerWidth = flagWidth + 15
DividerMargin == 15

\* no go-trace.toml
NoConfigFile ==
    [state |-> "none", UseJSON |-> FALSE, AlwaysTerse |-> FALSE,
     AlwaysVerbose |-> FALSE, Width |-> 0]

\* a go-trace.toml that cannot be read or is not TOML
BadConfigFile ==
    [state |-> "bad", UseJSON |-> FALSE, AlwaysTerse |-> FALSE,
     AlwaysVerbose |-> FALSE, Width |-> 0]

\* The widths a go-trace.toml sets: 0 is a file without width
ConfigWidths == {0, 80}

\* go-trace.toml as toml.Unmarshal reads it: a key the file does not set is
\* the zero value
ConfigFiles ==
    {NoConfigFile, BadConfigFile} \cup
    [state : {"ok"}, UseJSON : BOOLEAN, AlwaysTerse : BOOLEAN,
     AlwaysVerbose : BOOLEAN, Width : ConfigWidths]

\* a boolean flag on the command line: not given, -x or -x=true, -x=false
BoolFlag == {<<>>, << TRUE >>, << FALSE >>}

\* -w on the command line: not given, or its value
WidthFlag == {<<>>, << 80 >>, << 120 >>}

\* a command line with one argument and no flag
NoFlags ==
    [h |-> <<>>, j |-> <<>>, s |-> <<>>, v |-> <<>>, w |-> <<>>,
     nargs |-> 1]

\* The command lines: the flags with one argument, and -h, no argument and
\* two arguments without other flags
CommandLines ==
    [h : {<<>>}, j : BoolFlag, s : BoolFlag, v : BoolFlag, w : WidthFlag,
     nargs : {1}]
    \cup {[NoFlags EXCEPT !.h = << TRUE >>], [NoFlags EXCEPT !.nargs = 0],
          [NoFlags EXCEPT !.nargs = 2]}

\* The *Config loadConfig returns for a file it can read, nil without a
\* file: a width of 0 becomes 120
loadConfig(file) ==
    IF file.state = "none" THEN <<>>
    ELSE << [UseJSON       |-> file.UseJSON,
             AlwaysTerse   |-> file.AlwaysTerse,
             AlwaysVerbose |-> file.AlwaysVerbose,
             Width         |-> IF file.Width = 0 THEN DefaultWidth
                               ELSE file.Width] >>

\* the variables as flag.BoolVar and flag.IntVar leave them
registeredFlags ==
    [flagHelp |-> FALSE, flagOutputJSON |-> FALSE, flagTerse |-> FALSE,
     flagVerbose |-> FALSE, flagWidth |-> DefaultWidth]

\* if config != nil { flagOutputJSON = config.UseJSON ... }
applyConfig(f, config) ==
    IF config = <<>> THEN f
    ELSE [f EXCEPT !.flagOutputJSON = config[1].UseJSON,
                   !.flagTerse      = config[1].AlwaysTerse,
                   !.flagVerbose    = config[1].AlwaysVerbose,
                   !.flagWidth      = config[1].Width]

\* flag.Parse() for one flag: a flag that is given sets its variable
flagValue(given, current) == IF given = <<>> THEN current ELSE given[1]

\* flag.Parse()
flagParse(f, cmd) ==
    [flagHelp       |-> flagValue(cmd.h, f.flagHelp),
     flagOutputJSON |-> flagValue(cmd.j, f.flagOutputJSON),
     flagTerse      |-> flagValue(cmd.s, f.flagTerse),
     flagVerbose    |-> flagValue(cmd.v, f.flagVerbose),
     flagWidth      |-> flagValue(cmd.w, f.flagWidth)]

\* the configuration applied after flag.Parse() instead of before it
parsedFlagsConfigLast(file, cmd) ==
    applyConfig(flagParse(registeredFlags, cmd), loadConfig(file))

\* The flag variables after flag.Parse(): the registered defaults, then the
\* configuration, then the command line
parsedFlags(file, cmd) ==
    flagParse(applyConfig(registeredFlags, loadConfig(file)), cmd)

\* if flagWidth != 120 { outputWidth = flagWidth }
applyWidth(w, width) == IF w # DefaultWidth THEN w ELSE width

\* if flagWidth != 120 { outputDividerWidth = flagWidth + 15 }
applyDividerWidth(w, width) ==
    IF w # DefaultWidth THEN w + DividerMargin ELSE width

\* The view printTraceResult is called with
viewOption(terse, verbose) ==
    IF terse THEN "terse" ELSE IF verbose THEN "verbose" ELSE "short"

\* main's variables when it calls followRedirects, for a configuration file
\* and a command line that let it get there
MainParsed(file, cmd) ==
    /\ configFile = file
    /\ cmdline = cmd
    /\ flagHelp = parsedFlags(file, cmd).flagHelp
    /\ flagOutputJSON = parsedFlags(file, cmd).flagOutputJSON
    /\ flagTerse = parsedFlags(file, cmd).flagTerse
    /\ flagVerbose = parsedFlags(file, cmd).flagVerbose
    /\ flagWidth = parsedFlags(file, cmd).flagWidth
    /\ outputWidth = InitialOutputWidth
    /\ outputDividerWidth = InitialOutputDividerWidth

(***************************************************************************)
(* The program: main calls followRedirects(url); each action below is one  *)
(* pass through the for loop, by the way the pass ends.                    *)
(***************************************************************************)

NoError == "nil"

Init ==
    /\ url \in Seeds
    /\ urlStr = url
    /\ pc = "loop"
    /\ hops = <<>>
    /\ number = 1
    /\ previousURL = <<>>
    /\ visitedURLs = (url :> 1)
    /\ cloudflareStatus = FALSE
    /\ resp = <<>>
    /\ requests = <<>>
    /\ openBodies = {}
    /\ ret = <<>>
    /\ traceResult = <<>>
    /\ stdout = <<>>
    /\ exitCode = <<>>
    /\ call = <<>>
    /\ MainParsed(NoConfigFile, NoFlags)

\* the error left out of what is returned
ReturnNoError(finalURL, ledger, ledgerNil, cf, err) ==
    /\ ret' = << [url |-> finalURL, hops |-> ledger, hopsNil |-> ledgerNil,
                  cloudflareStatus |-> cf, err |-> NoError] >>
    /\ openBodies' = {}
    /\ pc' = "returned"

\* the loop entered again after a failed client.Do
ReturnRetrying(finalURL, ledger, ledgerNil, cf, err) ==
    /\ ret' = << [url |-> finalURL, hops |-> ledger, hopsNil |-> ledgerNil,
                  cloudflareStatus |-> cf, err |-> err] >>
    /\ openBodies' = {}
    /\ pc' = IF err = "error accessing URL" THEN "loop" ELSE "returned"

\* the hops recorded so far returned with an error
ReturnKeepingHops(finalURL, ledger, ledgerNil, cf, err) ==
    /\ ret' = << [url |-> finalURL,
                  hops |-> IF err # NoError THEN hops ELSE ledger,
                  hopsNil |-> ledgerNil,
                  cloudflareStatus |-> cf, err |-> err] >>
    /\ openBodies' = {}
    /\ pc' = "returned"

\* return finalURL, hops, cloudflareStatus, err: the deferred Body.Close
\* calls run. hopsNil tells the nil slice from the empty one.
Return(finalURL, ledger, ledgerNil, cf, err) ==
    /\ ret' = << [url |-> finalURL, hops |-> ledger, hopsNil |-> ledgerNil,
                  cloudflareStatus |-> cf, err |-> err] >>
    /\ openBodies' = {}
    /\ pc' = "returned"

\* The head of the loop when no loop is detected: the URL's count goes up
Visit ==
    /\ pc = "loop"
    /\ ~loopDetected(visitedURLs, urlStr)
    /\ visitedURLs' = markVisited(visitedURLs, urlStr)

\* client.Do(req) is called and answers status, Location and Server; the
\* hop is appended. Header values the code does not read are left empty.
Response(status, location, server) ==
    /\ Visit
    /\ canRespond(Parse(urlStr))
    /\ requests' = Append(requests, urlStr)
    /\ resp' = << [StatusCode |-> status, Location |-> location,
                   Server |-> server] >>

\* The loop is detected: the sentinel hop is appended and the ledger returned
LoopDetected ==
    /\ pc = "loop"
    /\ loopDetected(visitedURLs, urlStr)
    /\ hops' = Append(hops, Hop(number, urlStr, StatusLoopDetected))
    /\ Return(urlStr, hops', FALSE, cloudflareStatus, NoError)
    /\ UNCHANGED << call, mainVars, url, urlStr, number, previousURL, visitedURLs,
                    cloudflareStatus, resp, requests, traceResult, stdout,
                    exitCode >>

\* http.NewRequest fails: the URL does not parse
NewRequestFails ==
    /\ Visit
    /\ ~Parse(urlStr).ok
    /\ Return(<<>>, <<>>, TRUE, cloudflareStatus, "error creating request")
    /\ UNCHANGED << call, mainVars, url, urlStr, hops, number, previousURL, cloudflareStatus,
                    resp, requests, traceResult, stdout, exitCode >>

\* client.Do fails and the failure is one of the three the resolver prints
\* itself: doConnectionRefusedError, doTimeout and doValidationError end in
\* os.Exit(0), so followRedirects does not return
DoFailsAndExits ==
    \E kind \in TransportFailures \ {"other"} :
        /\ Visit
        /\ canRespond(Parse(urlStr))
        /\ requests' = Append(requests, urlStr)
        /\ stdout' = Append(stdout, kind)
        /\ exitCode' = << 0 >>
        /\ pc' = "exited"
        /\ UNCHANGED << call, mainVars, url, urlStr, hops, number, previousURL,
                        cloudflareStatus, resp, openBodies, ret, traceResult >>

\* client.Do fails in any other way
DoFails ==
    /\ Visit
    /\ Parse(urlStr).ok
    /\ requests' = Append(requests, urlStr)
    /\ Return(<<>>, <<>>, TRUE, cloudflareStatus, "error accessing URL")
    /\ UNCHANGED << call, mainVars, url, urlStr, hops, number, previousURL, cloudflareStatus,
                    resp, traceResult, stdout, exitCode >>

\* A status outside 300..399: the ledger and the URL are returned
NotRedirect ==
    \E status \in Statuses :
        /\ ~isRedirect(status)
        /\ Response(status, <<>>, <<>>)
        /\ hops' = Append(hops, Hop(number, urlStr, status))
        /\ Return(urlStr, hops', FALSE, cloudflareStatus, NoError)
        /\ UNCHANGED << call, mainVars, url, urlStr, number, previousURL, cloudflareStatus,
                        traceResult, stdout, exitCode >>

\* A redirect status without Location
RedirectWithoutLocation ==
    \E status \in Statuses, server \in Servers :
        /\ isRedirect(status)
        /\ Response(status, <<>>, server)
        /\ hops' = Append(hops, Hop(number, urlStr, status))
        /\ cloudflareStatus' = (cloudflareStatus \/ isCloudflare(server))
        /\ Return(<<>>, <<>>, FALSE, cloudflareStatus', NoError)
        /\ UNCHANGED << call, mainVars, url, urlStr, number, previousURL, traceResult, stdout,
                        exitCode >>

\* A redirect whose Location starts with the special provider's prefix
RedirectToSpecialProvider ==
    \E status \in Statuses, location \in Locations :
        /\ isRedirect(status)
        /\ isSpecialProvider(location)
        /\ Response(status, location, <<>>)
        /\ hops' = Append(Append(hops, Hop(number, urlStr, status)),
                          Hop(specialHopNumber(number), location, StatusOK))
        /\ Return(location, hops', FALSE, cloudflareStatus, NoError)
        /\ UNCHANGED << call, mainVars, url, urlStr, number, previousURL, cloudflareStatus,
                        traceResult, stdout, exitCode >>

\* A redirect whose target cannot be computed
RedirectFails ==
    \E status \in Statuses, location \in Locations :
        /\ isRedirect(status)
        /\ ~isSpecialProvider(location)
        /\ Response(status, location, <<>>)
        /\ \E target \in {redirectTarget(previousURL, location, << Parse(urlStr) >>)} :
            /\ target.err # NoError
            /\ hops' = Append(hops, Hop(number, urlStr, status))
            /\ Return(<<>>, <<>>, TRUE, cloudflareStatus, target.err)
            /\ UNCHANGED << call, mainVars, url, urlStr, number, previousURL, cloudflareStatus,
                            traceResult, stdout, exitCode >>

\* previousURL left nil after a redirect is followed
nextPreviousURLNil(u) == <<>>

\* previousURL, err = url.Parse(urlStr), with the new urlStr
nextPreviousURL(u) == << Parse(u) >>

\* A redirect that is followed, with the status and the Location of the
\* response: the loop goes round again
Follow(status, location) ==
    /\ isRedirect(status)
    /\ ~isSpecialProvider(location)
    /\ Response(status, location, <<>>)
    /\ \E target \in {redirectTarget(previousURL, location, << Parse(urlStr) >>)} :
        /\ target.err = NoError
        /\ hops' = Append(hops, Hop(number, urlStr, status))
        /\ urlStr' = target.url
        /\ number' = nextNumber(number)
        /\ previousURL' = nextPreviousURL(target.url)
        /\ openBodies' = openBodies \cup {number}
        /\ pc' = "loop"
        /\ UNCHANGED << call, mainVars, url, cloudflareStatus, ret, traceResult, stdout,
                        exitCode >>

\* A redirect that is followed. The resolver has no limit on the hops: here
\* at most MaxHops requests are made in a resolution, and after the last of
\* them a redirect is followed only to a URL the next pass detects as a loop.
RedirectFollowed ==
    \E status \in Statuses, location \in Locations :
        /\ pc = "loop"
        /\ number <= MaxHops
        /\ Follow(status, location)
        /\ number < MaxHops \/ loopDetected(visitedURLs', urlStr')

\* main: followRedirects returned an error
MainError ==
    /\ pc = "returned"
    /\ ret[1].err # NoError
    /\ stdout' = Append(stdout, "Error tracing URL")
    /\ exitCode' = << 1 >>
    /\ pc' = "exited"
    /\ UNCHANGED << call, mainVars, url, urlStr, hops, number, previousURL, visitedURLs,
                    cloudflareStatus, resp, requests, openBodies, ret,
                    traceResult >>

\* main: the TraceResult is built from what followRedirects returned and
\* the width of the URL column is set
MainTraceResult ==
    /\ pc = "returned"
    /\ ret[1].err = NoError
    /\ traceResult' = << [Hops     |-> ret[1].hops,
                          FinalURL |-> ret[1].url,
                          CleanURL |-> makeCleanURL(ret[1].url)] >>
    /\ outputWidth' = applyWidth(flagWidth, outputWidth)
    /\ outputDividerWidth' = applyDividerWidth(flagWidth, outputDividerWidth)
    /\ pc' = "traced"
    /\ UNCHANGED << call, configFile, cmdline, flagHelp, flagOutputJSON,
                    flagTerse, flagVerbose, flagWidth, url, urlStr, hops,
                    number, previousURL, visitedURLs, cloudflareStatus, resp,
                    requests, openBodies, ret, stdout, exitCode >>

\* main: the result is printed, as JSON or by printTraceResult, and the
\* process ends: os.Exit(0) after the JSON and in doCloudFlareError, the
\* return of main otherwise. ClearTerminal runs before the short and the
\* verbose view; the verbose view sets the divider to the final URL's length.
MainOutput ==
    /\ pc = "traced"
    /\ \E view \in {viewOption(flagTerse, flagVerbose)} :
        /\ stdout' =
              IF flagOutputJSON THEN Append(stdout, "json")
              ELSE (IF view = "terse" THEN stdout
                    ELSE Append(stdout, "clear"))
                   \o << IF ret[1].cloudflareStatus THEN "cloudflare"
                         ELSE view >>
        /\ outputDividerWidth' =
              IF /\ ~flagOutputJSON
                 /\ ~ret[1].cloudflareStatus
                 /\ view = "verbose"
                 /\ Len(ret[1].url) <= outputWidth
              THEN Len(ret[1].url) + DividerMargin
              ELSE outputDividerWidth
    /\ exitCode' = << 0 >>
    /\ pc' = "exited"
    /\ UNCHANGED << call, configFile, cmdline, flagHelp, flagOutputJSON,
                    flagTerse, flagVerbose, flagWidth, outputWidth, url,
                    urlStr, hops, number, previousURL, visitedURLs,
                    cloudflareStatus, resp, requests, openBodies, ret,
                    traceResult >>

Next ==
    \/ LoopDetected
    \/ NewRequestFails
    \/ DoFailsAndExits
    \/ DoFails
    \/ NotRedirect
    \/ RedirectWithoutLocation
    \/ RedirectToSpecialProvider
    \/ RedirectFails
    \/ RedirectFollowed
    \/ MainError
    \/ MainTraceResult
    \/ MainOutput

Spec == Init /\ [][Next]_vars

(***************************************************************************)
(* Properties of followRedirects                                           *)
(***************************************************************************)

Last(s) == s[Len(s)]

\* followRedirects has returned
Returned == ret # <<>>

\* a status code of 300..399
InRedirectRange(status) == status \in 300..399

\* the last response ended the resolution with a status outside 300..399
EndedByFinalResponse ==
    /\ Returned
    /\ resp # <<>>
    /\ ~InRedirectRange(resp[1].StatusCode)

\* no URL was requested twice
NoURLRepeats ==
    \A i, j \in DOMAIN requests : i # j => requests[i] # requests[j]

\* C1: a chain of N requests without a repeated URL that ends on a status
\* outside 300..399 returns N hops, numbered 1..N, hop i holding the URL of
\* request i, and the final URL returned is the URL of hop N.
C1_ChainLedger ==
    (EndedByFinalResponse /\ NoURLRepeats) =>
        /\ ret[1].err = NoError
        /\ ~ret[1].hopsNil
        /\ Len(ret[1].hops) = Len(requests)
        /\ \A i \in DOMAIN requests :
              /\ ret[1].hops[i].Number = i
              /\ ret[1].hops[i].URL = requests[i]
        /\ ret[1].hops[Len(requests)].StatusCode = resp[1].StatusCode
        /\ ret[1].url = Last(ret[1].hops).URL

\* C1 witness: a chain of MaxHops requests, the first answered with a
\* relative Location, ends on a final response
C1_Witness ==
    /\ EndedByFinalResponse
    /\ NoURLRepeats
    /\ Len(requests) = MaxHops
    /\ requests[1] = seedA1
    /\ requests[2] = String(Parse(locUpper))

\* the sentinel hop of a detected loop
SentinelHop(n, u) == [Number |-> n, URL |-> u, StatusCode |-> 508]

\* C2: when the URL main was given comes up again as the URL to request,
\* the next step returns without a request: the ledger is the hops so far
\* and the sentinel hop for that URL, the final URL is that URL, and there
\* is no error.
C2_SeedLoop ==
    [][(pc = "loop" /\ number > 1 /\ urlStr = url) =>
          /\ requests' = requests
          /\ pc' = "returned"
          /\ ret'[1].err = NoError
          /\ ~ret'[1].hopsNil
          /\ ret'[1].hops = Append(hops, SentinelHop(number, url))
          /\ ret'[1].url = url]_vars

\* C2 witness: the seed came up again after one other URL, and the ledger
\* returned has three hops ending in the sentinel hop
C2_Witness ==
    /\ Returned
    /\ Len(requests) = 2
    /\ requests[1] = url
    /\ requests[2] # url
    /\ Len(ret[1].hops) = 3
    /\ Last(ret[1].hops) = SentinelHop(3, url)

\* C3: no URL is requested more than once within one resolution.
C3_NoURLRequestedTwice == NoURLRepeats

\* the last response is a redirect without Location
EndedWithoutLocation ==
    /\ resp # <<>>
    /\ InRedirectRange(resp[1].StatusCode)
    /\ resp[1].Location = <<>>

\* C4 as claimed: a redirect without Location from a server that is not the
\* anti-bot provider returns an empty ledger, no error, and the URL just
\* requested as the final URL.
C4_DeadEndKeepsURL ==
    (EndedWithoutLocation /\ ~Contains(resp[1].Server, cloudflare)) =>
        /\ Returned
        /\ ret[1].err = NoError
        /\ ret[1].hops = <<>>
        /\ ret[1].url = Last(requests)

\* C4 amended: a redirect without Location from a server that is not the
\* anti-bot provider returns an empty ledger (not nil), no error, the flag
\* false, and the empty string as the final URL.
C4_DeadEndEmptyURL ==
    (EndedWithoutLocation /\ ~Contains(resp[1].Server, cloudflare)) =>
        /\ Returned
        /\ ret[1].err = NoError
        /\ ret[1].hops = <<>>
        /\ ~ret[1].hopsNil
        /\ ~ret[1].cloudflareStatus
        /\ ret[1].url = <<>>
        /\ Last(requests) # <<>>

\* C4 witness: the dead end is met at the third hop, with status 300 and a
\* Server header of another provider
C4_Witness ==
    /\ EndedWithoutLocation
    /\ resp[1].StatusCode = 300
    /\ resp[1].Server = srvNginx
    /\ Len(hops) = MaxHops
    /\ Returned

\* C5: a redirect without Location whose Server header contains
\* "cloudflare" returns the flag true, no error and no hops, at any hop.
C5_Blocked ==
    (EndedWithoutLocation /\ Contains(resp[1].Server, cloudflare)) =>
        /\ Returned
        /\ ret[1].err = NoError
        /\ ret[1].cloudflareStatus
        /\ ret[1].hops = <<>>
        /\ ret[1].url = <<>>

\* C5 witness: blocked at the third hop by a server that names cloudflare
\* inside a longer Server value
C5_Witness ==
    /\ EndedWithoutLocation
    /\ resp[1].Server = srvCloudflareNginx
    /\ Len(hops) = MaxHops
    /\ Returned
    /\ ret[1].cloudflareStatus

\* the last response is a redirect to the special provider
EndedAtSpecialProvider ==
    /\ resp # <<>>
    /\ InRedirectRange(resp[1].StatusCode)
    /\ HasPrefix(resp[1].Location, outlookPrefix)

\* C6: a redirect whose Location starts with the special provider's prefix
\* ends the resolution: one hop is added after the hop of the request, with
\* the number of that hop plus 2, status 200 and Location as its URL; the
\* final URL is Location; and Location is never requested.
C6_SpecialProvider ==
    EndedAtSpecialProvider =>
        /\ Returned
        /\ ret[1].err = NoError
        /\ ret[1].url = resp[1].Location
        /\ Len(ret[1].hops) = Len(requests) + 1
        /\ ret[1].hops[Len(requests)] =
              [Number |-> Len(requests), URL |-> Last(requests),
               StatusCode |-> resp[1].StatusCode]
        /\ Last(ret[1].hops) =
              [Number |-> Len(requests) + 2, URL |-> resp[1].Location,
               StatusCode |-> 200]
        /\ \A i \in DOMAIN requests : requests[i] # resp[1].Location

\* C6 witness: the special provider is met at the second hop
C6_Witness ==
    /\ EndedAtSpecialProvider
    /\ Returned
    /\ Len(requests) = 2
    /\ Last(ret[1].hops).Number = 4

\* a redirect was followed: the loop is at its head again, urlStr is the
\* URL computed from the Location of the last response
Followed == pc = "loop" /\ number > 1

\* the value of a query parameter of the Location of the last response
LocationParam(name) == QueryGet(Parse(resp[1].Location).RawQuery, name)

unwrappedReturnUri ==
    << "h", "t", "t", "p", "s", ":", "/", "/", "x", "/", "r", "?", "r", "e", "t", "u", "r", "n", "U", "r", "i", "=", "/", "h", "o", "m", "e", "?", "i", "d", "=", "1" >>

\* "redir=/c"
unwrappedRedirQuery ==
    << "r", "e", "d", "i", "r", "=", "/", "c" >>

prevExample ==
    << "h", "t", "t", "p", ":", "/", "/", "a", ".", "e", "x", "a", "m", "p", "l", "e", "/", "x" >>

\* "https://b.example/y"
reqExample ==
    << "h", "t", "t", "p", "s", ":", "/", "/", "b", ".", "e", "x", "a", "m", "p", "l", "e", "/", "y" >>

\* "/rel"
relOnly ==
    << "/", "r", "e", "l" >>

\* "/path"
locPath ==
    << "/", "p", "a", "t", "h" >>

\* "//c.example/p"
locNoScheme ==
    << "/", "/", "c", ".", "e", "x", "a", "m", "p", "l", "e", "/", "p" >>

\* "http:/p"
locNoHost ==
    << "h", "t", "t", "p", ":", "/", "p" >>

\* "http://c.example/p?q=1#f"
locAbsolute ==
    << "h", "t", "t", "p", ":", "/", "/", "c", ".", "e", "x", "a", "m", "p", "l", "e", "/", "p", "?", "q", "=", "1", "#", "f" >>

\* "p?q=1"
locNoSlash ==
    << "p", "?", "q", "=", "1" >>

\* "http://a.example/path"
resolvedFromPrevious ==
    << "h", "t", "t", "p", ":", "/", "/", "a", ".", "e", "x", "a", "m", "p", "l", "e", "/", "p", "a", "t", "h" >>

\* "https://b.example/path"
resolvedFromRequest ==
    << "h", "t", "t", "p", "s", ":", "/", "/", "b", ".", "e", "x", "a", "m", "p", "l", "e", "/", "p", "a", "t", "h" >>

\* The values of the two *url.URL arguments
Pointers ==
    {<<>>, << Parse(prevExample) >>, << Parse(reqExample) >>, << Parse(relOnly) >>}

\* The values of the location argument
RelativeLocations ==
    {locPath, locNoScheme, locNoHost, locAbsolute, locNoSlash, locBad}

\* The resolver's variables while a function is exercised on its own
Idle ==
    /\ url = <<>>
    /\ urlStr = <<>>
    /\ hops = <<>>
    /\ number = 1
    /\ previousURL = <<>>
    /\ visitedURLs = (<<>> :> 1)
    /\ cloudflareStatus = FALSE
    /\ resp = <<>>
    /\ requests = <<>>
    /\ openBodies = {}
    /\ traceResult = <<>>
    /\ stdout = <<>>
    /\ exitCode = <<>>

InitRelative ==
    /\ Idle
    /\ MainParsed(NoConfigFile, NoFlags)
    /\ pc = "call"
    /\ ret = <<>>
    /\ call \in { << [previous |-> p, location |-> l, requestURL |-> r,
                      result |-> <<>>] >> :
                    p \in Pointers, l \in RelativeLocations, r \in Pointers }

CallHandleRelativeRedirect ==
    /\ pc = "call"
    /\ call' = << [call[1] EXCEPT !.result =
                     << handleRelativeRedirect(call[1].previous,
                                               call[1].location,
                                               call[1].requestURL) >>] >>
    /\ pc' = "called"
    /\ UNCHANGED << mainVars, url, urlStr, hops, number, previousURL, visitedURLs,
                    cloudflareStatus, resp, requests, openBodies, ret,
                    traceResult, stdout, exitCode >>

SpecRelative == InitRelative /\ [][CallHandleRelativeRedirect]_vars

\* C9: a missing scheme is taken from previousURL when there is one, else
\* from requestURL, and without both the call fails with the missing-scheme
\* error; a missing host likewise, and a location with a scheme but no host
\* fails with the missing-host error without both. "/path" after
\* http://a.example/x gives http://a.example/path, and with no previous URL
\* and the request https://b.example/y gives https://b.example/path.
C9_RelativeRedirect ==
    (pc = "called" /\ Parse(call[1].location).ok) =>
        LET c   == call[1]
            loc == Parse(c.location)
            r   == c.result[1]
            none == c.previous = <<>> /\ c.requestURL = <<>>
        IN  /\ (loc.Scheme = <<>> /\ c.previous # <<>>) =>
                  r.err = NoError /\ r.u.Scheme = c.previous[1].Scheme
            /\ (loc.Scheme = <<>> /\ c.previous = <<>> /\ c.requestURL # <<>>) =>
                  r.err = NoError /\ r.u.Scheme = c.requestURL[1].Scheme
            /\ (loc.Scheme = <<>> /\ none) =>
                  r.err = "missing scheme for relative redirect"
            /\ (loc.Host = <<>> /\ c.previous # <<>>) =>
                  r.err = NoError /\ r.u.Host = c.previous[1].Host
            /\ (loc.Host = <<>> /\ c.previous = <<>> /\ c.requestURL # <<>>) =>
                  r.err = NoError /\ r.u.Host = c.requestURL[1].Host
            /\ (loc.Scheme # <<>> /\ loc.Host = <<>> /\ none) =>
                  r.err = "missing host for relative redirect"
            /\ (c.location = locPath /\ c.previous = << Parse(prevExample) >>) =>
                  String(r.u) = resolvedFromPrevious
            /\ (c.location = locPath /\ c.previous = <<>>
                  /\ c.requestURL = << Parse(reqExample) >>) =>
                  String(r.u) = resolvedFromRequest

\* C9 witness: "/path" was resolved with a previous URL and a request URL
\* of different schemes and hosts
C9_Witness ==
    /\ pc = "called"
    /\ call[1].location = locPath
    /\ call[1].previous = << Parse(prevExample) >>
    /\ call[1].requestURL = << Parse(reqExample) >>
    /\ call[1].result[1].err = NoError

(***************************************************************************)
(* makeCleanURL and the TraceResult of main, for every final URL over a    *)
(* small alphabet                                                          *)
(***************************************************************************)

\* The characters of the final URLs
CleanAlphabet == {"a", "/", "?"}

\* The length of the longest final URL
MaxCleanLen == 4

CleanInputs == UNION {[1..n -> CleanAlphabet] : n \in 0..MaxCleanLen}

InitClean ==
    /\ Idle
    /\ MainParsed(NoConfigFile, NoFlags)
    /\ pc = "returned"
    /\ call = <<>>
    /\ ret \in { << [url |-> u, hops |-> <<>>, hopsNil |-> FALSE,
                     cloudflareStatus |-> FALSE, err |-> NoError] >> :
                   u \in CleanInputs }

SpecClean == InitClean /\ [][MainTraceResult]_vars

\* C10: the CleanURL of a TraceResult is its FinalURL up to the first "?",
\* the whole FinalURL when it has no "?", and never contains "?"; the
\* FinalURL is the URL followRedirects returned.
C10_CleanURL ==
    traceResult # <<>> =>
        LET final == traceResult[1].FinalURL
            clean == traceResult[1].CleanURL
        IN  /\ final = ret[1].url
            /\ \A k \in DOMAIN clean : clean[k] # "?"
            /\ \E n \in 0..Len(final) :
                  /\ clean = SubSeq(final, 1, n)
                  /\ n = Len(final) \/ final[n + 1] = "?"

\* C10 witness: a final URL with two "?" whose clean URL is the non-empty
\* part before the first
C10_Witness ==
    /\ traceResult # <<>>
    /\ traceResult[1].FinalURL = << "a", "?", "a", "?" >>
    /\ traceResult[1].CleanURL = << "a" >>

\* C11: makeCleanURL is idempotent: applied to the CleanURL that main
\* computed from any final URL (with no "?", one, several, or a leading
\* "?"), it gives that CleanURL again.
C11_CleanIdempotent ==
    traceResult # <<>> =>
        /\ traceResult[1].CleanURL = makeCleanURL(traceResult[1].FinalURL)
        /\ makeCleanURL(traceResult[1].CleanURL) = traceResult[1].CleanURL

\* C11 witness: a final URL that begins with "?" and has a second "?": its
\* clean URL is empty, and the clean URL of the empty string is empty
C11_Witness ==
    /\ traceResult # <<>>
    /\ traceResult[1].FinalURL = << "?", "a", "?", "a" >>
    /\ traceResult[1].CleanURL = <<>>
    /\ makeCleanURL(<<>>) = <<>>

(***************************************************************************)
(* url-tracer.go: the resolver whose hops carry a StatusCodeClass. Its     *)
(* loop is the loop of followRedirects above, with the class set on every  *)
(* hop it appends and os.Exit(1) on a timeout or a certificate error.      *)
(***************************************************************************)

\* the class test without the lower end of 2xx
getStatusCodeClassAbove(statusCode) ==
    IF statusCode > 200 /\ statusCode < 300 THEN "2xx"
    ELSE IF statusCode >= 300 /\ statusCode < 400 THEN "3xx"
    ELSE IF statusCode >= 400 /\ statusCode < 500 THEN "4xx"
    ELSE IF statusCode >= 500 /\ statusCode < 600 THEN "5xx"
    ELSE ""

\* the switch of getStatusCodeClass
getStatusCodeClass(statusCode) ==
    IF statusCode >= 200 /\ statusCode < 300 THEN "2xx"
    ELSE IF statusCode >= 300 /\ statusCode < 400 THEN "3xx"
    ELSE IF statusCode >= 400 /\ statusCode < 500 THEN "4xx"
    ELSE IF statusCode >= 500 /\ statusCode < 600 THEN "5xx"
    ELSE ""

\* Hop{Number, URL, StatusCode} followed by
\* hop.StatusCodeClass = getStatusCodeClass(hop.StatusCode)
ClassedHop(n, u, status) ==
    [Number |-> n, URL |-> u, StatusCode |-> status,
     StatusCodeClass |-> getStatusCodeClass(status)]

\* The status codes a response can carry: both ends of every class and the
\* codes next to them
TracerStatuses == {0, 100, 199, 200, 299, 300, 399, 400, 499, 500, 599, 600}

\* The Location values of the redirects
TracerLocations == {locRelative, locSeed, locOutlook, locBad}

TracerLoopDetected ==
    /\ pc = "loop"
    /\ loopDetected(visitedURLs, urlStr)
    /\ hops' = Append(hops, ClassedHop(number, urlStr, StatusLoopDetected))
    /\ Return(urlStr, hops', FALSE, cloudflareStatus, NoError)
    /\ UNCHANGED << call, mainVars, url, urlStr, number, previousURL, visitedURLs,
                    cloudflareStatus, resp, requests, traceResult, stdout,
                    exitCode >>

TracerNewRequestFails ==
    /\ Visit
    /\ ~Parse(urlStr).ok
    /\ Return(<<>>, <<>>, TRUE, cloudflareStatus, "error creating request")
    /\ UNCHANGED << call, mainVars, url, urlStr, hops, number, previousURL,
                    cloudflareStatus, resp, requests, traceResult, stdout,
                    exitCode >>

\* client.Do fails by a timeout or a certificate error: doTimeout and
\* doValidationError end in os.Exit(1)
TracerDoFailsAndExits ==
    \E kind \in {"timeout", "x509"} :
        /\ Visit
        /\ canRespond(Parse(urlStr))
        /\ requests' = Append(requests, urlStr)
        /\ stdout' = Append(stdout, kind)
        /\ exitCode' = << 1 >>
        /\ pc' = "exited"
        /\ UNCHANGED << call, mainVars, url, urlStr, hops, number, previousURL,
                        cloudflareStatus, resp, openBodies, ret, traceResult >>

TracerDoFails ==
    /\ Visit
    /\ Parse(urlStr).ok
    /\ requests' = Append(requests, urlStr)
    /\ Return(<<>>, <<>>, TRUE, cloudflareStatus, "error accessing URL")
    /\ UNCHANGED << call, mainVars, url, urlStr, hops, number, previousURL,
                    cloudflareStatus, resp, traceResult, stdout, exitCode >>

TracerNotRedirect ==
    \E status \in TracerStatuses :
        /\ ~isRedirect(status)
        /\ Response(status, <<>>, <<>>)
        /\ hops' = Append(hops, ClassedHop(number, urlStr, status))
        /\ Return(urlStr, hops', FALSE, cloudflareStatus, NoError)
        /\ UNCHANGED << call, mainVars, url, urlStr, number, previousURL,
                        cloudflareStatus, traceResult, stdout, exitCode >>

TracerRedirectWithoutLocation ==
    \E status \in TracerStatuses, server \in Servers :
        /\ isRedirect(status)
        /\ Response(status, <<>>, server)
        /\ hops' = Append(hops, ClassedHop(number, urlStr, status))
        /\ cloudflareStatus' = (cloudflareStatus \/ isCloudflare(server))
        /\ Return(<<>>, <<>>, FALSE, cloudflareStatus', NoError)
        /\ UNCHANGED << call, mainVars, url, urlStr, number, previousURL, traceResult,
                        stdout, exitCode >>

TracerRedirectToSpecialProvider ==
    \E status \in TracerStatuses, location \in TracerLocations :
        /\ isRedirect(status)
        /\ isSpecialProvider(location)
        /\ Response(status, location, <<>>)
        /\ hops' = Append(Append(hops, ClassedHop(number, urlStr, status)),
                          ClassedHop(specialHopNumber(number), location,
                                     StatusOK))
        /\ Return(location, hops', FALSE, cloudflareStatus, NoError)
        /\ UNCHANGED << call, mainVars, url, urlStr, number, previousURL,
                        cloudflareStatus, traceResult, stdout, exitCode >>

TracerRedirectFails ==
    \E status \in TracerStatuses, location \in TracerLocations :
        /\ isRedirect(status)
        /\ ~isSpecialProvider(location)
        /\ Response(status, location, <<>>)
        /\ \E target \in {redirectTarget(previousURL, location,
                                         << Parse(urlStr) >>)} :
            /\ target.err # NoError
            /\ hops' = Append(hops, ClassedHop(number, urlStr, status))
            /\ Return(<<>>, <<>>, TRUE, cloudflareStatus, target.err)
            /\ UNCHANGED << call, mainVars, url, urlStr, number, previousURL,
                            cloudflareStatus, traceResult, stdout, exitCode >>

TracerRedirectFollowed ==
    \E status \in TracerStatuses, location \in TracerLocations :
        /\ number < MaxHops
        /\ isRedirect(status)
        /\ ~isSpecialProvider(location)
        /\ Response(status, location, <<>>)
        /\ \E target \in {redirectTarget(previousURL, location,
                                         << Parse(urlStr) >>)} :
            /\ target.err = NoError
            /\ hops' = Append(hops, ClassedHop(number, urlStr, status))
            /\ urlStr' = target.url
            /\ number' = nextNumber(number)
            /\ previousURL' = << Parse(target.url) >>
            /\ openBodies' = openBodies \cup {number}
            /\ pc' = "loop"
            /\ UNCHANGED << call, mainVars, url, cloudflareStatus, ret, traceResult,
                            stdout, exitCode >>

NextTracer ==
    \/ TracerLoopDetected
    \/ TracerNewRequestFails
    \/ TracerDoFailsAndExits
    \/ TracerDoFails
    \/ TracerNotRedirect
    \/ TracerRedirectWithoutLocation
    \/ TracerRedirectToSpecialProvider
    \/ TracerRedirectFails
    \/ TracerRedirectFollowed

SpecTracer == Init /\ [][NextTracer]_vars

\* the class named by the hundreds digit of a code of 200..599, the empty
\* class for any other code
ClassByHundreds(status) ==
    IF status \in 200..599
    THEN << "2xx", "3xx", "4xx", "5xx" >>[(status \div 100) - 1]
    ELSE ""

\* C12: every hop of the ledger, while it is built and when it is returned
\* (fetched hops, the loop sentinel with 508, the special provider's hop
\* with 200), carries the class of its status code: "2xx", "3xx", "4xx" or
\* "5xx" by the hundreds digit for 200..599, the empty class otherwise.
C12_StatusCodeClass ==
    /\ \A k \in DOMAIN hops :
          hops[k].StatusCodeClass = ClassByHundreds(hops[k].StatusCode)
    /\ Returned =>
          \A k \in DOMAIN ret[1].hops :
              /\ ret[1].hops[k].StatusCodeClass
                    = ClassByHundreds(ret[1].hops[k].StatusCode)
              /\ ret[1].hops[k].StatusCodeClass
                    = getStatusCodeClass(ret[1].hops[k].StatusCode)

\* C12 witness: a returned ledger that ends with the loop sentinel, classed
\* "5xx", after a fetched redirect hop classed "3xx"
C12_Witness ==
    /\ Returned
    /\ Len(ret[1].hops) > 1
    /\ Last(ret[1].hops).StatusCode = 508
    /\ Last(ret[1].hops).StatusCodeClass = "5xx"
    /\ ret[1].hops[1].StatusCode = 399
    /\ ret[1].hops[1].StatusCodeClass = "3xx"

(***************************************************************************)
(* Failures of client.Do                                                   *)
(***************************************************************************)

\* client.Do failed in this resolution: the resolver printed one of its
\* three messages and ended the process, or returned "error accessing URL"
FetchFailed ==
    \/ /\ ~Returned
       /\ stdout # <<>>
       /\ stdout[1] \in TransportFailures
    \/ /\ Returned
       /\ ret[1].err = "error accessing URL"

\* C13: after a failed fetch (timeout, certificate validation, connection
\* refused, any other transport error) the resolution is over, it has
\* returned or the process has ended, and no step issues another fetch or
\* enters the loop again; the failed URL is the last one requested.
C13_NoRetry ==
    /\ [](FetchFailed => pc \in {"returned", "exited"})
    /\ [][FetchFailed => /\ requests' = requests
                         /\ pc' \in {"returned", "exited"}]_vars

\* C13 witness: the second fetch of a resolution failed, the error came back
\* to main and the process has ended with two requests made
C13_Witness ==
    /\ FetchFailed
    /\ Returned
    /\ pc = "exited"
    /\ Len(requests) = 2

\* C14: followRedirects prints nothing and never ends the process: nothing
\* is on standard output and the process has no exit code until
\* followRedirects has returned to main.
C14_EngineReturns ==
    ~Returned => /\ stdout = <<>>
                 /\ exitCode = <<>>
                 /\ pc # "exited"

(***************************************************************************)
(* main from its first line, for every configuration file and command     *)
(* line: followRedirects is taken by its results                           *)
(***************************************************************************)

\* Results followRedirects returns: a success, a success whose URL has a
\* query, a detected loop, a dead end, a block by cloudflare and an error
EngineResults ==
    { [url |-> seedA1, hops |-> << Hop(1, seedA1, 200) >>,
       hopsNil |-> FALSE, cloudflareStatus |-> FALSE, err |-> NoError],
      [url |-> seedQuery, hops |-> << Hop(1, seedQuery, 200) >>,
       hopsNil |-> FALSE, cloudflareStatus |-> FALSE, err |-> NoError],
      [url |-> seedA1,
       hops |-> << Hop(1, seedA1, 300),
                   Hop(2, seedA1, StatusLoopDetected) >>,
       hopsNil |-> FALSE, cloudflareStatus |-> FALSE, err |-> NoError],
      [url |-> <<>>, hops |-> <<>>,
       hopsNil |-> FALSE, cloudflareStatus |-> FALSE, err |-> NoError],
      [url |-> <<>>, hops |-> <<>>,
       hopsNil |-> FALSE, cloudflareStatus |-> TRUE, err |-> NoError],
      [url |-> <<>>, hops |-> <<>>,
       hopsNil |-> TRUE, cloudflareStatus |-> FALSE,
       err |-> "error accessing URL"] }

InitMain ==
    /\ Idle
    /\ pc = "main"
    /\ ret = <<>>
    /\ call = <<>>
    /\ configFile \in ConfigFiles
    /\ cmdline \in CommandLines
    /\ flagHelp = registeredFlags.flagHelp
    /\ flagOutputJSON = registeredFlags.flagOutputJSON
    /\ flagTerse = registeredFlags.flagTerse
    /\ flagVerbose = registeredFlags.flagVerbose
    /\ flagWidth = registeredFlags.flagWidth
    /\ outputWidth = InitialOutputWidth
    /\ outputDividerWidth = InitialOutputDividerWidth

\* loadConfig returns an error
MainLoadConfigFails ==
    /\ pc = "main"
    /\ configFile.state = "bad"
    /\ stdout' = Append(stdout, "Error loading configuration")
    /\ exitCode' = << 1 >>
    /\ pc' = "exited"
    /\ UNCHANGED << call, mainVars, url, urlStr, hops, number, previousURL,
                    visitedURLs, cloudflareStatus, resp, requests, openBodies,
                    ret, traceResult >>

\* From loadConfig to flag.Parse(): the flag variables are set
ParseFlags ==
    /\ pc = "main"
    /\ configFile.state # "bad"
    /\ \E f \in {parsedFlags(configFile, cmdline)} :
        /\ flagHelp' = f.flagHelp
        /\ flagOutputJSON' = f.flagOutputJSON
        /\ flagTerse' = f.flagTerse
        /\ flagVerbose' = f.flagVerbose
        /\ flagWidth' = f.flagWidth

\* no argument, or more than one: the usage message and os.Exit(1)
MainUsage ==
    /\ ParseFlags
    /\ cmdline.nargs # 1
    /\ stdout' = Append(stdout, "usage")
    /\ exitCode' = << 1 >>
    /\ pc' = "exited"
    /\ UNCHANGED << call, configFile, cmdline, outputWidth,
                    outputDividerWidth, url, urlStr, hops, number,
                    previousURL, visitedURLs, cloudflareStatus, resp,
                    requests, openBodies, ret, traceResult >>

\* -h: the usage message and os.Exit(0)
MainHelp ==
    /\ ParseFlags
    /\ cmdline.nargs = 1
    /\ flagHelp'
    /\ stdout' = Append(stdout, "usage")
    /\ exitCode' = << 0 >>
    /\ pc' = "exited"
    /\ UNCHANGED << call, configFile, cmdline, outputWidth,
                    outputDividerWidth, url, urlStr, hops, number,
                    previousURL, visitedURLs, cloudflareStatus, resp,
                    requests, openBodies, ret, traceResult >>

\* main gets to the call of followRedirects
MainFlagsParsed ==
    /\ ParseFlags
    /\ cmdline.nargs = 1
    /\ ~flagHelp'
    /\ pc' = "parsed"
    /\ UNCHANGED << call, configFile, cmdline, outputWidth,
                    outputDividerWidth, url, urlStr, hops, number,
                    previousURL, visitedURLs, cloudflareStatus, resp,
                    requests, openBodies, ret, traceResult, stdout,
                    exitCode >>

\* followRedirects(url) returns
FollowRedirectsReturns ==
    /\ pc = "parsed"
    /\ ret' \in { << r >> : r \in EngineResults }
    /\ pc' = "returned"
    /\ UNCHANGED << call, mainVars, url, urlStr, hops, number, previousURL,
                    visitedURLs, cloudflareStatus, resp, requests, openBodies,
                    traceResult, stdout, exitCode >>

\* followRedirects(url) ends the process in doConnectionRefusedError,
\* doTimeout or doValidationError
FollowRedirectsExits ==
    \E kind \in TransportFailures \ {"other"} :
        /\ pc = "parsed"
        /\ stdout' = Append(stdout, kind)
        /\ exitCode' = << 0 >>
        /\ pc' = "exited"
        /\ UNCHANGED << call, mainVars, url, urlStr, hops, number,
                        previousURL, visitedURLs, cloudflareStatus, resp,
                        requests, openBodies, ret, traceResult >>

NextMain ==
    \/ MainLoadConfigFails
    \/ MainUsage
    \/ MainHelp
    \/ MainFlagsParsed
    \/ FollowRedirectsReturns
    \/ FollowRedirectsExits
    \/ MainError
    \/ MainTraceResult
    \/ MainOutput

SpecMain == InitMain /\ [][NextMain]_vars

\* the setting a flag ends with: the value given on the command line, else
\* the value of the configuration file, else the flag's default
Effective(given, fileValue, default) ==
    IF given # <<>> THEN given[1]
    ELSE IF configFile.state = "ok" THEN fileValue
    ELSE default

\* the width the configuration file stands for: 120 when it sets none
ConfigFileWidth == IF configFile.Width = 0 THEN 120 ELSE configFile.Width

\* C18: once the flags are parsed, each of -j, -s, -v and -w has the value
\* given on the command line whatever the configuration file says, and the
\* file's value only when the flag is not given (the default without a
\* file); the width main prints with after the trace is that width.
C18_FlagsOverrideConfig ==
    (pc # "main" /\ configFile.state # "bad") =>
        /\ flagOutputJSON
              = Effective(cmdline.j, configFile.UseJSON, FALSE)
        /\ flagTerse
              = Effective(cmdline.s, configFile.AlwaysTerse, FALSE)
        /\ flagVerbose
              = Effective(cmdline.v, configFile.AlwaysVerbose, FALSE)
        /\ flagWidth = Effective(cmdline.w, ConfigFileWidth, 120)
        /\ traceResult # <<>> =>
              outputWidth = Effective(cmdline.w, ConfigFileWidth, 120)

\* C18 witness: the file asks for JSON and a width of 80, the command line
\* gives -j=false and -w 120: the result is printed without JSON at 120
C18_Witness ==
    /\ pc = "exited"
    /\ traceResult # <<>>
    /\ configFile.state = "ok"
    /\ configFile.UseJSON
    /\ configFile.Width = 80
    /\ cmdline.j = << FALSE >>
    /\ cmdline.w = << 120 >>
    /\ ~flagOutputJSON
    /\ outputWidth = 120
    /\ Last(stdout) = "short"

(***************************************************************************)
(* The exit code of the process                                            *)
(***************************************************************************)

\* The resolution ended in an error: a fetch failed (timeout, certificate
\* validation, connection refused, other transport error) or
\* followRedirects returned an error
OutcomeIsError ==
    \/ FetchFailed
    \/ /\ Returned
       /\ ret[1].err # NoError

\* C15: when the process has ended, its exit code is non-zero exactly when
\* the resolution ended in an error, and zero for a success, a detected
\* loop and a block by cloudflare.
C15_ExitCode ==
    (pc = "exited" /\ exitCode # <<>>) =>
        ((exitCode[1] # 0) <=> OutcomeIsError)

(***************************************************************************)
(* What the caller can tell from the values followRedirects returns        *)
(***************************************************************************)

\* the caller's tests on a returned (final URL, hops, cloudflare flag, err)
LooksLikeError(r) == r.err # NoError

LooksLikeBlocked(r) == r.err = NoError /\ r.cloudflareStatus

LooksLikeLoop(r) ==
    /\ r.err = NoError
    /\ ~r.cloudflareStatus
    /\ r.hops # <<>>
    /\ Last(r.hops).StatusCode = 508

\* C16: a return on a detected loop, a return on a redirect without
\* Location from a cloudflare server, and a return with an error each give
\* values that pass the caller's test for that outcome and fail its tests
\* for the other two.
C16_Distinguishable ==
    [][ /\ LoopDetected =>
              /\ LooksLikeLoop(ret'[1])
              /\ ~LooksLikeBlocked(ret'[1])
              /\ ~LooksLikeError(ret'[1])
        /\ (RedirectWithoutLocation /\ Contains(resp'[1].Server, cloudflare)) =>
              /\ LooksLikeBlocked(ret'[1])
              /\ ~LooksLikeLoop(ret'[1])
              /\ ~LooksLikeError(ret'[1])
        /\ (NewRequestFails \/ DoFails \/ RedirectFails) =>
              /\ LooksLikeError(ret'[1])
              /\ ~LooksLikeLoop(ret'[1])
              /\ ~LooksLikeBlocked(ret'[1]) ]_vars

\* C16 witness: a loop detected after two requests, returned with a ledger
\* of three hops and values only the loop test accepts, and printed by main
C16_Witness ==
    /\ pc = "exited"
    /\ Returned
    /\ Len(requests) = 2
    /\ Len(ret[1].hops) = 3
    /\ LooksLikeLoop(ret[1])
    /\ ~LooksLikeBlocked(ret[1])
    /\ ~LooksLikeError(ret[1])

\* C17: a response with a status outside 300..399 (1xx, 2xx, 4xx, 5xx) ends
\* the resolution at once: followRedirects has returned without error, the
\* final URL is the URL just requested, and the last hop of the ledger
\* has that URL and that status.
C17_NonRedirectSuccess ==
    (resp # <<>> /\ ~InRedirectRange(resp[1].StatusCode)) =>
        /\ Returned
        /\ ret[1].err = NoError
        /\ ret[1].url = Last(requests)
        /\ ret[1].hops # <<>>
        /\ Last(ret[1].hops).URL = Last(requests)
        /\ Last(ret[1].hops).StatusCode = resp[1].StatusCode

\* C17 witness: the second request of a resolution is answered 199 and the
\* resolution has returned that URL
C17_Witness ==
    /\ Returned
    /\ resp # <<>>
    /\ resp[1].StatusCode = 199
    /\ Len(requests) = 2
    /\ ret[1].url = requests[2]

(***************************************************************************)
(* The response bodies and the URLs of the ledger                          *)
(***************************************************************************)

\* C19: a response body is closed by the end of the loop iteration that got
\* it: no body is open when the loop is at its head, and two bodies are
\* never open together.
C19_BodyReleasedEachIteration ==
    /\ pc = "loop" => openBodies = {}
    /\ Cardinality(openBodies) <= 1

\* the URLs of a ledger, in order
HopURLs(ledger) == [i \in DOMAIN ledger |-> ledger[i].URL]

EndsWithSpecialHop(ledger) ==
    /\ EndedAtSpecialProvider
    /\ Len(ledger) = Len(requests) + 1

\* the numbers of a ledger start at 1 and go up by 1, but by 2 to the hop
\* added for the special provider
Numbered(ledger) ==
    /\ ledger # <<>> => ledger[1].Number = 1
    /\ \A i \in 2..Len(ledger) :
          ledger[i].Number - ledger[i - 1].Number =
              IF i = Len(ledger) /\ EndsWithSpecialHop(ledger) THEN 2 ELSE 1

\* s is the beginning of t
IsPrefix(s, t) == Len(s) <= Len(t) /\ SubSeq(t, 1, Len(s)) = s

\* C21: in the ledger the loop holds and in the ledger returned, the hop
\* numbers start at 1 and each hop is 1 above the hop before it, except the
\* special provider's hop, which is 2 above; and every step of the
\* resolution leaves the hops already appended as they are, in their order.
C21_HopNumbering ==
    /\ [](Numbered(hops) /\ (Returned => Numbered(ret[1].hops)))
    /\ [][IsPrefix(hops, hops')]_vars

\* C21 witness: a ledger of three hops numbered 1, 2 and 4 was returned
C21_Witness ==
    /\ Returned
    /\ Len(ret[1].hops) = 3
    /\ ret[1].hops[1].Number = 1
    /\ ret[1].hops[2].Number = 2
    /\ ret[1].hops[3].Number = 4
    /\ IsPrefix(SubSeq(ret[1].hops, 1, 2), hops)

(***************************************************************************)
(* The two parameter blocks of followRedirects on their own: from          *)
(* url.Parse(redirectURLString) to the end of the redir block, for targets *)
(* with one query parameter                                                *)
(***************************************************************************)

\* "http://a/r"
unwrapBase ==
    << "h", "t", "t", "p", ":", "/", "/", "a", "/", "r" >>

\* "utm", a parameter the resolver does not know
utm ==
    << "u", "t", "m" >>

\* "#f"
fragmentF ==
    << "#", "f" >>

ParamNames == {returnUri, redir, utm}

\* The pieces of a parameter value as it is on the wire: a letter, escapes
\* of "/", ":", "?" and "%", and escapes of the escapes of "/" and "?"
ValuePieces ==
    { << "a" >>, << "%", "2", "F" >>,
      << "%", "3", "A" >>,
      << "%", "3", "F" >>,
      << "%", "2", "5" >>,
      << "%", "2", "5", "2", "F" >>,
      << "%", "2", "5", "3", "F" >> }

\* The number of pieces in the longest value
MaxValuePieces == 2

RECURSIVE WireValues(_)
WireValues(n) ==
    IF n = 0 THEN { <<>> }
    ELSE WireValues(n - 1)
            \cup { v \o q : v \in WireValues(n - 1), q \in ValuePieces }

InitUnwrap ==
    /\ Idle
    /\ MainParsed(NoConfigFile, NoFlags)
    /\ pc = "call"
    /\ ret = <<>>
    /\ call \in { << [name |-> n, value |-> v,
                      redirectURLString |->
                          unwrapBase \o << "?" >> \o n \o << "=" >> \o v \o f,
                      result |-> <<>>] >> :
                    n \in ParamNames, v \in WireValues(MaxValuePieces),
                    f \in {<<>>, fragmentF} }

CallUnwrapParams ==
    /\ pc = "call"
    /\ call' = << [call[1] EXCEPT !.result =
                     << unwrapParams(call[1].redirectURLString) >>] >>
    /\ pc' = "called"
    /\ UNCHANGED << mainVars, url, urlStr, hops, number, previousURL,
                    visitedURLs, cloudflareStatus, resp, requests, openBodies,
                    ret, traceResult, stdout, exitCode >>

SpecUnwrap == InitUnwrap /\ [][CallUnwrapParams]_vars

\* the target has a parameter the resolver unwraps
Recognised == call[1].name \in {returnUri, redir} /\ call[1].value # <<>>

\* the value decoded once from the wire, then "%3A" and "%2F" replaced
DecodedOnce(value) ==
    ReplaceAll(ReplaceAll(QueryUnescape(value).val, pct3A, << ":" >>),
               pct2F, << "/" >>)

\* C22: the value of the recognised parameter is percent-decoded once, and
\* then "%3A" and "%2F" are replaced: the next URL carries that value, so a
\* value encoded twice keeps one level of encoding apart from those two.
C22_DecodedOnce ==
    (pc = "called" /\ Recognised) =>
        /\ call[1].result[1].err = NoError
        /\ call[1].result[1].url =
              unwrapBase \o << "?" >> \o call[1].name \o << "=" >>
                  \o DecodedOnce(call[1].value)

\* C24: a target with neither returnUri nor redir, or with an empty one,
\* comes out of the two parameter blocks as the same string: scheme, host,
\* path, query and fragment are those of the target.
C24_PassThrough ==
    (pc = "called" /\ ~Recognised) =>
        /\ call[1].result[1].err = NoError
        /\ call[1].result[1].url = call[1].redirectURLString
        /\ Parse(call[1].result[1].url) = Parse(call[1].redirectURLString)

\* C24 witness: a target with the query utm=%252F%3F and the fragment f
\* came out unchanged
C24_Witness ==
    /\ pc = "called"
    /\ call[1].name = utm
    /\ call[1].value = << "%", "2", "5", "2", "F", "%", "3", "F" >>
    /\ Parse(call[1].redirectURLString).Fragment = << "f" >>
    /\ call[1].result[1].url = call[1].redirectURLString

(***************************************************************************)
(* What handleRelativeRedirect leaves alone                                *)
(***************************************************************************)

\* C23: the URL handleRelativeRedirect returns has the path, the query and
\* the fragment of Location; a Location with a scheme and a host is returned
\* as it was parsed, without error, whatever previousURL and requestURL are.
C23_RelativeFrame ==
    pc = "called" =>
        LET loc == Parse(call[1].location)
            res == call[1].result[1]
        IN  /\ res.err = "nil" =>
                  /\ res.u.Path = loc.Path
                  /\ res.u.RawPath = loc.RawPath
                  /\ res.u.RawQuery = loc.RawQuery
                  /\ res.u.ForceQuery = loc.ForceQuery
                  /\ res.u.Fragment = loc.Fragment
                  /\ res.u.Opaque = loc.Opaque
            /\ (loc.ok /\ loc.Scheme # <<>> /\ loc.Host # <<>>) =>
                  /\ res.err = "nil"
                  /\ res.u = loc

\* C23 witness: an absolute Location with a query and a fragment, called
\* with a previousURL and a requestURL of other schemes and hosts, came back
\* as it was
C23_Witness ==
    /\ pc = "called"
    /\ call[1].location = locAbsolute
    /\ call[1].previous = << Parse(prevExample) >>
    /\ call[1].requestURL = << Parse(reqExample) >>
    /\ call[1].result[1].err = "nil"
    /\ String(call[1].result[1].u) = locAbsolute

(***************************************************************************)
(* formatURL, called directly for every URL over a small alphabet and      *)
(* every width -w can set from 1 up, and the formatURL of url-tracer.go    *)
(* with its width of 80                                                    *)
(***************************************************************************)

\* strings.Repeat(s, n)
Repeat(s, n) == [k \in 1..n |-> s]

\* "\n" + strings.Repeat(" ", indent)
continuation(indent) == << "\n" >> \o Repeat(" ", indent)

\* end := i + outputWidth; if end > len(url) { end = len(url) }
segmentEnd(str, width, i) ==
    IF i + width > Len(str) THEN Len(str) ELSE i + width

\* lineStart left where it was
lineStartKept(lineStart, end) == lineStart

\* lineStart = end
nextLineStart(lineStart, end) == end

\* for i := 0; i < len(url); i += outputWidth { ... }: url[lineStart:end]
\* is SubSeq(url, lineStart + 1, end)
RECURSIVE formatLoop(_, _, _, _, _, _)
formatLoop(str, width, indent, i, lineStart, formattedURL) ==
    IF ~(i < Len(str))
    THEN formattedURL
    ELSE formatLoop(str, width, indent, i + width,
                    nextLineStart(lineStart, segmentEnd(str, width, i)),
                    (IF i > 0 THEN formattedURL \o continuation(indent)
                              ELSE formattedURL)
                        \o SubSeq(str, lineStart + 1,
                                  segmentEnd(str, width, i)))

\* formatURL of go-trace.go, width standing for the global outputWidth
formatURL(s, width) ==
    IF Len(s) <= width THEN s ELSE formatLoop(s, width, 23, 0, 0, <<>>)

\* const maxLineLength = 80
maxLineLength == 80

\* formatURL of url-tracer.go
formatURLTracer(s) ==
    IF Len(s) <= maxLineLength THEN s
    ELSE formatLoop(s, maxLineLength, 15, 0, 0, <<>>)

\* The characters of the short URLs
FormatAlphabet == {"a", "b"}

\* The length of the longest short URL
MaxURLLen == 5

\* The widest -w
MaxWidth == 3

\* a URL of n characters in which no 7 consecutive characters repeat a
\* character
LongURL(n) ==
    [k \in 1..n |-> << "a", "b", "c", "d", "e", "f", "g" >>[(k % 7) + 1]]

\* The URLs formatURL of go-trace.go is called with
FormatInputs == UNION {[1..n -> FormatAlphabet] : n \in 0..MaxURLLen}

\* The URLs formatURL of url-tracer.go is called with: the same, and long
\* ones around one and two lines of 80
TracerFormatInputs ==
    FormatInputs \cup {LongURL(n) : n \in {80, 81, 160, 161}}

\* main has parsed -w n and set outputWidth, and is about to print a URL
InitFormat ==
    /\ Idle
    /\ \E n \in 1..MaxWidth :
          /\ configFile = NoConfigFile
          /\ cmdline = [NoFlags EXCEPT !.w = << n >>]
          /\ flagHelp = parsedFlags(configFile, cmdline).flagHelp
          /\ flagOutputJSON = parsedFlags(configFile, cmdline).flagOutputJSON
          /\ flagTerse = parsedFlags(configFile, cmdline).flagTerse
          /\ flagVerbose = parsedFlags(configFile, cmdline).flagVerbose
          /\ flagWidth = parsedFlags(configFile, cmdline).flagWidth
          /\ outputWidth = applyWidth(flagWidth, InitialOutputWidth)
          /\ outputDividerWidth =
                 applyDividerWidth(flagWidth, InitialOutputDividerWidth)
    /\ pc = "format"
    /\ ret = <<>>
    /\ call \in { << [fn |-> "go-trace", url |-> s, result |-> <<>>] >> :
                    s \in FormatInputs }
               \cup { << [fn |-> "url-tracer", url |-> s, result |-> <<>>] >> :
                        s \in TracerFormatInputs }

CallFormatURL ==
    /\ pc = "format"
    /\ call[1].fn = "go-trace"
    /\ call' = << [call[1] EXCEPT
                     !.result = << formatURL(call[1].url, outputWidth) >>] >>
    /\ pc' = "formatted"
    /\ UNCHANGED << url, urlStr, hops, number, previousURL, visitedURLs,
                    cloudflareStatus, resp, requests, openBodies, ret,
                    traceResult, stdout, exitCode, mainVars >>

CallFormatURLTracer ==
    /\ pc = "format"
    /\ call[1].fn = "url-tracer"
    /\ call' = << [call[1] EXCEPT
                     !.result = << formatURLTracer(call[1].url) >>] >>
    /\ pc' = "formatted"
    /\ UNCHANGED << url, urlStr, hops, number, previousURL, visitedURLs,
                    cloudflareStatus, resp, requests, openBodies, ret,
                    traceResult, stdout, exitCode, mainVars >>

NextFormat == CallFormatURL \/ CallFormatURLTracer

SpecFormat == InitFormat /\ [][NextFormat]_vars

\* The number of segments of at most w characters n characters are cut
\* into; the empty string is one empty segment
Segments(n, w) == IF n = 0 THEN 1 ELSE (n + w - 1) \div w

\* out is u cut into consecutive segments of w characters (the last one of
\* what is left), the segments after the first preceded by a newline and
\* indent spaces: every character of u is in out at its place, every other
\* place of out is that of a separator, and out has no other place
CutInto(out, s, w, indent) ==
    /\ Len(out) = Len(s) + (indent + 1) * (Segments(Len(s), w) - 1)
    /\ \A k \in 1..Len(s) : out[k + (indent + 1) * ((k - 1) \div w)] = s[k]
    /\ \A j \in 1..(Segments(Len(s), w) - 1) :
          /\ out[j * w + (indent + 1) * (j - 1) + 1] = "\n"
          /\ \A sp \in 1..indent :
                out[j * w + (indent + 1) * (j - 1) + 1 + sp] = " "

\* C25: for every URL and every positive width, formatURL returns a URL no
\* longer than the width unchanged, and a longer one cut into consecutive
\* segments of at most width characters, each continuation preceded by a
\* newline and a fixed indentation (23 spaces in go-trace.go; 15, with a
\* width of 80, in url-tracer.go), so that the URL is what is left without
\* the separators.
C25_FormatLossless ==
    pc = "formatted" =>
        LET s   == call[1].url
            out == call[1].result[1]
            w   == IF call[1].fn = "go-trace" THEN outputWidth ELSE 80
            ind == IF call[1].fn = "go-trace" THEN 23 ELSE 15
        IN  /\ w > 0
            /\ Len(s) <= w => out = s
            /\ CutInto(out, s, w, ind)

\* C25 witness: a URL of five characters was cut at width 2 into three
\* segments, the last one of a single character
C25_Witness ==
    /\ pc = "formatted"
    /\ call[1].fn = "go-trace"
    /\ outputWidth = 2
    /\ call[1].url = << "a", "b", "b", "a", "b" >>
    /\ call[1].result[1] =
           << "a", "b" >> \o continuation(23) \o << "b", "a" >>
               \o continuation(23) \o << "b" >>

(***************************************************************************)
(* The visit counts                                                        *)
(***************************************************************************)

\* C26: no visit count exceeds 2 and none ever decreases; a URL is requested
\* at most twice in a trace, and the seed URL at most once; no URL is
\* requested more often than its count says.
C26_VisitCounts ==
    /\ [](/\ \A u \in DOMAIN visitedURLs : visitedURLs[u] \in 1..2
          /\ \A u \in DOMAIN visitedURLs :
                /\ Count(requests, u) <= visitedURLs[u]
                /\ u = url => Count(requests, u) <= 1
          /\ \A k \in DOMAIN requests : requests[k] \in DOMAIN visitedURLs)
    /\ [][\A u \in DOMAIN visitedURLs :
              /\ u \in DOMAIN visitedURLs'
              /\ visitedURLs'[u] >= visitedURLs[u]]_vars

\* C26 witness: the seed was requested once and a second URL twice, both
\* counts are 2, and the loop was detected at the third pass on the second URL
C26_Witness ==
    /\ Returned
    /\ Len(requests) = 3
    /\ requests[1] = url
    /\ requests[2] # url
    /\ requests[3] = requests[2]
    /\ visitedURLs[url] = 2
    /\ visitedURLs[requests[2]] = 2
    /\ Len(ret[1].hops) = 4
    /\ Last(ret[1].hops).StatusCode = StatusLoopDetected

(***************************************************************************)
(* Termination: followRedirects without a bound on the number of requests, *)
(* against servers whose Location values are drawn from a finite set, with *)
(* every client.Do returning                                               *)
(***************************************************************************)

\* The Location values of the servers: a path, the seed, and an absolute URL
\* written in upper case
LiveLocations == {locRelative, locSeed, locUpper}

\* The status of the redirects the servers send
LiveStatus == 300

\* A redirect is followed, however many requests have been made
FollowedUnbounded ==
    \E location \in LiveLocations :
        /\ pc = "loop"
        /\ Follow(LiveStatus, location)

NextLive ==
    \/ LoopDetected
    \/ NewRequestFails
    \/ DoFailsAndExits
    \/ DoFails
    \/ NotRedirect
    \/ RedirectWithoutLocation
    \/ RedirectToSpecialProvider
    \/ RedirectFails
    \/ FollowedUnbounded
    \/ MainError
    \/ MainTraceResult
    \/ MainOutput

\* A pass of the loop that has begun ends, as every call it makes returns:
\* the process does not stay in the loop without taking a step. This is
\* WF_vars(NextLive) for the states of the loop, written with the step
\* itself: in such a state LoopDetected, NewRequestFails or DoFails is
\* enabled, and a step that changes vars is a step of NextLive.
PassEnds == []<><<TRUE>>_vars \/ <>[](pc # "loop")

\* every call the loop makes returns, and main goes on once followRedirects
\* has returned
SpecLive ==
    /\ Init
    /\ [][NextLive]_vars
    /\ PassEnds
    /\ WF_vars(LoopDetected)
    /\ WF_vars(MainError \/ MainTraceResult \/ MainOutput)

\* C27: with the redirect targets in a finite set and every fetch returning,
\* followRedirects eventually leaves its loop (it returns or the process
\* exits); until then it has made fewer than two requests for every URL it
\* has counted, which is what bounds the loop, as nothing bounds the number
\* of hops.
C27_Terminates ==
    /\ [](pc = "loop" => Len(requests) < 2 * Cardinality(DOMAIN visitedURLs))
    /\ <>(pc # "loop")

\* C27 witness: a resolution that ended on a detected loop after more
\* requests than any hop limit of the bounded specification allows
C27_Witness ==
    /\ Returned
    /\ ret[1].err = NoError
    /\ Len(requests) > MaxHops + 1
    /\ Len(ret[1].hops) = Len(requests) + 1
    /\ Last(ret[1].hops).StatusCode = StatusLoopDetected

(***************************************************************************)
(* The status of the sentinel hop                                          *)
(***************************************************************************)

\* The ledger followRedirects returned ends with the hop LoopDetected added:
\* it has one hop more than requests were made, and the extra hop is not
\* that of the special provider
EndsWithSentinelHop ==
    /\ Len(ret[1].hops) = Len(requests) + 1
    /\ ~EndsWithSpecialHop(ret[1].hops)

\* C28: in a ledger returned without error, the last hop has status 508
\* exactly when it is the hop added on a detected loop, and never when its
\* status is that of a server response.
C28_SentinelOnlyOnLoop ==
    (Returned /\ ret[1].err = NoError /\ ret[1].hops # <<>>) =>
        ((Last(ret[1].hops).StatusCode = StatusLoopDetected)
            <=> EndsWithSentinelHop)

(***************************************************************************)
(* What is returned with an error                                          *)
(***************************************************************************)

\* C29: whenever followRedirects returns an error, of any kind and after
\* any number of recorded hops, the ledger it returns is nil and the final
\* URL is empty; a non-empty ledger is returned only without error.
C29_ErrorReturnsNothing ==
    Returned =>
        /\ ret[1].err # NoError =>
              /\ ret[1].hopsNil
              /\ ret[1].hops = <<>>
              /\ ret[1].url = <<>>
        /\ ret[1].hops # <<>> => ret[1].err = NoError

\* C29 witness: an error returned at the third request, after two hops were
\* recorded: none of them is returned
C29_Witness ==
    /\ Returned
    /\ ret[1].err # NoError
    /\ Len(hops) = 2
    /\ Len(requests) = 3
    /\ ret[1].hops = <<>>
    /\ ret[1].hopsNil

(***************************************************************************)
(* previousURL                                                             *)
(***************************************************************************)

\* C30: at the head of every pass after the first, previousURL is non-nil
\* and is the parsed URL about to be requested, so that handleRelativeRedirect
\* takes a missing scheme and host from it and not from requestURL; it is
\* nil, and requestURL is used, at the first pass only. A Location that is a
\* path is resolved to the scheme and the host of the URL just requested.
C30_PreviousURL ==
    /\ [](pc = "loop" =>
             /\ (previousURL = <<>>) <=> (number = 1)
             /\ (number = 1) <=> (requests = <<>>)
             /\ number > 1 =>
                   /\ Parse(urlStr).ok
                   /\ previousURL = << Parse(urlStr) >>
                   /\ schemeDonor(previousURL, << Parse(urlStr) >>) = previousURL
                   /\ hostDonor(previousURL, << Parse(urlStr) >>) = previousURL)
    /\ [][(pc = "loop" /\ pc' = "loop" /\ resp'[1].Location = locRelative) =>
              /\ Parse(urlStr').Scheme = Parse(urlStr).Scheme
              /\ Parse(urlStr').Host = Parse(urlStr).Host
              /\ Parse(urlStr').Path = locRelative]_vars

\* C30 witness: the seed on host a redirected to a URL on host x, over
\* https, which answered with the path /b: the third pass is about to
\* request /b on host x over https, and previousURL is that URL
C30_Witness ==
    /\ pc = "loop"
    /\ number = 3
    /\ Len(requests) = 2
    /\ Parse(requests[1]).Host = << "a" >>
    /\ Parse(requests[2]).Host = << "x" >>
    /\ resp[1].Location = locRelative
    /\ Parse(urlStr).Host = << "x" >>
    /\ Parse(urlStr).Scheme = << "h", "t", "t", "p", "s" >>
    /\ previousURL = << Parse(urlStr) >>

(***************************************************************************)
(* What main prints for a block by cloudflare                              *)
(***************************************************************************)

\* What main writes for a trace result: the JSON or one of the three views
ResultOutputs == {"json", "terse", "short", "verbose"}

\* C31: when followRedirects returned the cloudflare flag, the process ends
\* having printed the cloudflare message and no trace result, whatever of
\* -j, -s and -v is in force.
C31_BlockedReported ==
    (pc = "exited" /\ Returned /\ ret[1].err = NoError
        /\ ret[1].cloudflareStatus) =>
            /\ \E k \in DOMAIN stdout : stdout[k] = "cloudflare"
            /\ \A k \in DOMAIN stdout : stdout[k] \notin ResultOutputs

(***************************************************************************)
(* formatURL pass by pass, for every width -w can set, zero and negative   *)
(* ones included: call[1] is the frame of formatURL, with its url, i,      *)
(* lineStart and formattedURL                                              *)
(***************************************************************************)

\* The widths given with -w: a negative one, zero, and the positive ones
RenderWidths == {-1, 0} \cup (1..MaxWidth)

\* main has parsed -w n and set outputWidth, and printTraceResult calls
\* formatURL with a non-empty URL
InitRender ==
    /\ Idle
    /\ \E n \in RenderWidths :
          /\ configFile = NoConfigFile
          /\ cmdline = [NoFlags EXCEPT !.w = << n >>]
          /\ flagHelp = parsedFlags(configFile, cmdline).flagHelp
          /\ flagOutputJSON = parsedFlags(configFile, cmdline).flagOutputJSON
          /\ flagTerse = parsedFlags(configFile, cmdline).flagTerse
          /\ flagVerbose = parsedFlags(configFile, cmdline).flagVerbose
          /\ flagWidth = parsedFlags(configFile, cmdline).flagWidth
          /\ outputWidth = applyWidth(flagWidth, InitialOutputWidth)
          /\ outputDividerWidth =
                 applyDividerWidth(flagWidth, InitialOutputDividerWidth)
    /\ pc = "format"
    /\ ret = <<>>
    /\ call \in { << [url |-> s, i |-> 0, lineStart |-> 0,
                      formattedURL |-> <<>>, result |-> <<>>] >> :
                    s \in FormatInputs \ {<<>>} }

\* if len(url) <= outputWidth { return url }
FormatFits ==
    /\ pc = "format"
    /\ Len(call[1].url) <= outputWidth
    /\ call' = << [call[1] EXCEPT !.result = << call[1].url >>] >>
    /\ pc' = "formatted"
    /\ UNCHANGED << url, urlStr, hops, number, previousURL, visitedURLs,
                    cloudflareStatus, resp, requests, openBodies, ret,
                    traceResult, stdout, exitCode, mainVars >>

\* lineStart := 0; i := 0
FormatEntersLoop ==
    /\ pc = "format"
    /\ ~(Len(call[1].url) <= outputWidth)
    /\ pc' = "formatLoop"
    /\ UNCHANGED << call, url, urlStr, hops, number, previousURL, visitedURLs,
                    cloudflareStatus, resp, requests, openBodies, ret,
                    traceResult, stdout, exitCode, mainVars >>

\* url[lineStart:end] is in range: 0 <= lineStart <= end <= len(url)
sliceInRange(str, lineStart, end) ==
    0 <= lineStart /\ lineStart <= end /\ end <= Len(str)

\* One pass of the for loop: the continuation and url[lineStart:end] are
\* written, lineStart = end, i += outputWidth
FormatPass ==
    /\ pc = "formatLoop"
    /\ call[1].i < Len(call[1].url)
    /\ \E end \in {segmentEnd(call[1].url, outputWidth, call[1].i)} :
          /\ sliceInRange(call[1].url, call[1].lineStart, end)
          /\ call' = << [call[1] EXCEPT
                !.formattedURL =
                    (IF call[1].i > 0 THEN @ \o continuation(23) ELSE @)
                        \o SubSeq(call[1].url, call[1].lineStart + 1, end),
                !.lineStart = nextLineStart(call[1].lineStart, end),
                !.i = @ + outputWidth] >>
    /\ UNCHANGED << pc, url, urlStr, hops, number, previousURL, visitedURLs,
                    cloudflareStatus, resp, requests, openBodies, ret,
                    traceResult, stdout, exitCode, mainVars >>

\* url[lineStart:end] is out of range: the runtime panics (slice bounds out
\* of range) and the process ends with exit code 2
FormatPanics ==
    /\ pc = "formatLoop"
    /\ call[1].i < Len(call[1].url)
    /\ ~sliceInRange(call[1].url, call[1].lineStart,
                     segmentEnd(call[1].url, outputWidth, call[1].i))
    /\ pc' = "panicked"
    /\ exitCode' = << 2 >>
    /\ UNCHANGED << call, url, urlStr, hops, number, previousURL, visitedURLs,
                    cloudflareStatus, resp, requests, openBodies, ret,
                    traceResult, stdout, mainVars >>

\* i < len(url) is false: return formattedURL.String()
FormatReturns ==
    /\ pc = "formatLoop"
    /\ ~(call[1].i < Len(call[1].url))
    /\ call' = << [call[1] EXCEPT !.result = << call[1].formattedURL >>] >>
    /\ pc' = "formatted"
    /\ UNCHANGED << url, urlStr, hops, number, previousURL, visitedURLs,
                    cloudflareStatus, resp, requests, openBodies, ret,
                    traceResult, stdout, exitCode, mainVars >>

NextRender ==
    \/ FormatFits
    \/ FormatEntersLoop
    \/ FormatPass
    \/ FormatPanics
    \/ FormatReturns

\* the process keeps running: a statement that can be executed is executed
SpecRender == InitRender /\ [][NextRender]_vars /\ WF_vars(NextRender)

\* C32: for every width given with -w, zero and negative ones included, and
\* every non-empty URL, formatURL never slices outside the URL and
\* eventually returns.
C32_FormatTerminates ==
    /\ [](pc # "panicked")
    /\ <>(pc = "formatted")

====
